---- MODULE Spec2Model ----
(***************************************************************************)
(* The news aggregation pipeline of lightbulb (NewsService, RedditParser,  *)
(* RSSParser, newsConfig): fetch, deduplicate, filter, sort, cache; and    *)
(* its explanation cache (CacheService).                                   *)
(*                                                                         *)
(* Specifications.  Spec: fetchAllNews and clearCache over a healthy       *)
(* store.  SpecFaulty: the same over a store whose operations can fail.    *)
(* SpecDedupe, SpecFilter, SpecSort: deduplicatePosts, filterPosts and     *)
(* sortPosts applied to every input list of a bounded set.  SpecCache: the *)
(* calls of CacheService, SpecOverlap: the same with setExplanation calls  *)
(* for different articles overlapping.  SpecExplain: explainNews calls of  *)
(* AIService made one after the other, SpecExplainOverlap: explainNews     *)
(* calls that overlap.  SpecParse: RSSParser.parseFeed applied to every    *)
(* feed of a bounded set.  SpecUnavailable: explainNews over a storage     *)
(* that fails.  SpecShared: explainNews for articles that share a url,     *)
(* with the preferences changing.  SpecLimited: two overlapping            *)
(* explainNews calls after a first one.  SpecHome: the handlers of the     *)
(* home screen, handleIlluminate and handleCloseModal.                     *)
(*                                                                         *)
(* Values.  A JavaScript value that may be undefined is a sequence of      *)
(* length at most one: <<>> is undefined, <<v>> is the value v.  A url is  *)
(* a record [scheme, host, path]: scheme "http" for an absolute http(s)    *)
(* url, "" for a text that does not start with "http"; host is the         *)
(* sequence of the labels of the host name.  A title is kept by its length *)
(* (the only thing the pipeline reads of it); publishedAt is the epoch     *)
(* time of the Date, <<>> for an Invalid Date.                             *)
(***************************************************************************)
EXTENDS Integers, Sequences, FiniteSets, TLC

VARIABLES
    posts,        \* pure-function harness: the input list
    config,       \* pure-function harness: the FilterConfig argument (<<>> = omitted)
    out,          \* pure-function harness: what the function returned
    op,           \* pure-function harness: which function ran ("input" before)
    now,          \* Date.now()
    slot,         \* the store entry under CACHE_CONFIG.NEWS_KEY (<<>> = absent)
    pc,           \* fetchAllNews: "idle", "fetching", "done"
    cfg,          \* fetchAllNews: the config argument of the call in progress
    result,       \* fetchAllNews: the list the last call resolved with
    fresh,        \* fetchAllNews: the call ran a fetch cycle (cache miss)
    rssPos,       \* fetchRSSNews: index of the feed whose request is awaited
    redditPos,    \* fetchRedditNews: index of the community whose request is awaited
    rssItems,     \* fetchRSSNews: allItems
    redditPosts,  \* fetchRedditNews: allPosts
    net,          \* per source: how its server answers in this cycle
    issued,       \* the sources whose request has been sent in this call
    atCall,       \* the slot and the time fetchAllNews found when it was called
    calls,        \* number of fetchAllNews calls started
    cleared,      \* clearCache resolved since the last fetchAllNews returned:
                  \* <<it removed a slot that was still valid>>, else <<>>
    rejected,     \* the public operations that have rejected
    faults,       \* the store operations that failed in the call in progress
    store,        \* explanation cache: per cache key the store entry (<<>> = absent)
    index,        \* explanation cache: the store entry under INDEX_KEY (<<>> = absent)
    procs,        \* explanation cache: per caller the CacheService call in progress
    prev,         \* explanation cache: <<[item, payload]>> when the call that
                  \* returned last is a setExplanation no other call overlapped
    ai,           \* AIService: its fields, and what its calls have done so far
    ex,           \* AIService: per caller the explainNews call in progress
    ui            \* home screen: its state, and per caller the handleIlluminate
                  \* call in progress

pureVars == <<posts, config, out, op>>
callVars == <<cleared, rejected, faults>>
pipeVars == <<now, slot, pc, cfg, result, fresh, rssPos, redditPos, rssItems,
              redditPosts, net, issued, atCall, calls, cleared, rejected, faults>>
vars == <<posts, config, out, op, now, slot, pc, cfg, result, fresh, rssPos,
          redditPos, rssItems, redditPosts, net, issued, atCall, calls,
          cleared, rejected, faults, store, index, procs, prev, ai, ex, ui>>
cacheVars == <<store, index, procs, prev>>
aiVars == <<ai, ex, ui>>
servVars == <<slot, pc, cfg, result, fresh, rssPos, redditPos, rssItems,
              redditPosts, net, issued, atCall, calls, cleared, rejected, faults>>

(***************************************************************************)
(* Bounds of the model.                                                    *)
(***************************************************************************)
MaxLen == 3        \* longest input list of the deduplication harness
MaxFilterLen == 2  \* longest input list of the filter harness
MaxSortLen == 3    \* longest input list of the sort harness
MaxCalls == 2      \* fetchAllNews calls in one behaviour
MaxMinutes == 7    \* the clock stops after this many minutes
MaxHalfWeeks == 3  \* the clock of the explanation cache stops after this many half weeks

(***************************************************************************)
(* Sequence helpers.                                                       *)
(***************************************************************************)
Range(s) == { s[i] : i \in 1..Len(s) }

SeqsUpTo(S, n) == UNION { [1..k -> S] : k \in 0..n }

\* String.prototype.includes on host names, label by label: t occurs in s.
Includes(s, t) ==
    \E i \in 0..(Len(s) - Len(t)) : \A j \in 1..Len(t) : s[i + j] = t[j]

\* Array.prototype.filter
RECURSIVE SelectSeqBy(_, _)
SelectSeqBy(s, keep) ==
    IF s = <<>> THEN <<>>
    ELSE IF keep[Head(s)] THEN <<Head(s)>> \o SelectSeqBy(Tail(s), keep)
         ELSE SelectSeqBy(Tail(s), keep)

(***************************************************************************)
(* newsConfig                                                              *)
(***************************************************************************)
TRUSTED_NEWS_DOMAINS ==
    { <<"reuters", "com">>, <<"apnews", "com">>, <<"npr", "org">>,
      <<"bbc", "com">>, <<"bbc", "co", "uk">>, <<"nytimes", "com">>,
      <<"washingtonpost", "com">>, <<"arstechnica", "com">>,
      <<"techcrunch", "com">>, <<"news", "ycombinator", "com">>,
      <<"cbc", "ca">>, <<"huffpost", "com">> }

NEWS_DURATION == 5 * 60 * 1000

DEFAULT_FILTER_CONFIG ==
    [requireExternalLink |-> TRUE, requireNewsDomain |-> TRUE,
     deprioritizeOneLiners |-> TRUE, minScore |-> <<10>>]

(***************************************************************************)
(* textUtils.extractDomain: the host name of the url without "www.", and   *)
(* the empty string when the text is not a url.                            *)
(***************************************************************************)
StripWww(host) ==
    IF \E i \in 1..(Len(host) - 1) : host[i] = "www"
    THEN LET i == CHOOSE k \in 1..(Len(host) - 1) :
                      /\ host[k] = "www"
                      /\ \A m \in 1..(k - 1) : host[m] # "www"
         IN  SubSeq(host, 1, i - 1) \o SubSeq(host, i + 1, Len(host))
    ELSE host

extractDomain(url) ==
    IF url = <<>> \/ url[1].scheme # "http" THEN <<>> ELSE StripWww(url[1].host)

(***************************************************************************)
(* NewsService.deduplicatePosts: `seen` is a Map, which keeps its keys in  *)
(* the order of their first insertion; set() on a present key replaces the *)
(* value in place.                                                         *)
(***************************************************************************)
ScoreOrZero(post) == IF post.score = <<>> THEN 0 ELSE post.score[1]

SeenIndex(seen, url) ==
    IF \E i \in 1..Len(seen) : seen[i].url = url
    THEN CHOOSE i \in 1..Len(seen) : seen[i].url = url
    ELSE 0

\* Replace-on-duplicate rule with the score comparison turned around.
ReplacesLowerScore(post, existing) ==
    \/ post.source = "rss" /\ existing.source = "reddit"
    \/ /\ post.source = "reddit" /\ existing.source = "reddit"
       /\ ScoreOrZero(post) < ScoreOrZero(existing)

\* Replace-on-duplicate rule without the source preference.
ReplacesByScoreOnly(post, existing) ==
    ScoreOrZero(post) > ScoreOrZero(existing)

Replaces(post, existing) ==
    \/ post.source = "rss" /\ existing.source = "reddit"
    \/ /\ post.source = "reddit" /\ existing.source = "reddit"
       /\ ScoreOrZero(post) > ScoreOrZero(existing)

\* A map keyed on id instead of url.
SeenSetById(seen, post) ==
    IF \E i \in 1..Len(seen) : seen[i].id = post.id THEN seen
    ELSE Append(seen, post)

SeenSet(seen, post) ==
    LET i == SeenIndex(seen, post.url) IN
    IF i = 0 THEN Append(seen, post)
    ELSE IF Replaces(post, seen[i]) THEN [seen EXCEPT ![i] = post]
         ELSE seen

RECURSIVE DedupFrom(_, _)
DedupFrom(seen, rest) ==
    IF rest = <<>> THEN seen
    ELSE DedupFrom(SeenSet(seen, Head(rest)), Tail(rest))

Reverse(s) == [i \in 1..Len(s) |-> s[Len(s) + 1 - i]]

\* A deduplication that hands the map's values back in reverse.
deduplicatePostsReversed(list) == Reverse(DedupFrom(<<>>, list))

deduplicatePosts(list) == DedupFrom(<<>>, list)

(***************************************************************************)
(* NewsService.filterPosts.  A call that ends with an exception returns    *)
(* [threw |-> TRUE]: post.url.startsWith on a post whose url is undefined  *)
(* is a TypeError.                                                         *)
(***************************************************************************)
Returned(list) == [threw |-> FALSE, val |-> list]
Threw == [threw |-> TRUE, val |-> <<>>]

\* The default parameter value: config = DEFAULT_FILTER_CONFIG when omitted.
ConfigOrDefault(c) == IF c = <<>> THEN DEFAULT_FILTER_CONFIG ELSE c[1]

startsWithHttp(url) == url[1].scheme = "http"

isNewsDomain(domain) ==
    \E trusted \in TRUSTED_NEWS_DOMAINS : Includes(domain, trusted)

\* A threshold that falls back to 0 when the config has no minScore.
minScoreThresholdZero(c) ==
    IF c.minScore # <<>> THEN c.minScore[1] ELSE 0

\* config.minScore ?? DEFAULT_FILTER_CONFIG.minScore ?? 10
minScoreThreshold(c) ==
    IF c.minScore # <<>> THEN c.minScore[1]
    ELSE IF DEFAULT_FILTER_CONFIG.minScore # <<>>
         THEN DEFAULT_FILTER_CONFIG.minScore[1]
         ELSE 10

\* A filter callback without the exemption of rss items.
KeepsPostNoRssExemption(post, c) ==
    /\ ~(c.requireExternalLink /\ ~startsWithHttp(post.url))
    /\ ~(c.requireNewsDomain /\ post.domain # <<>> /\ ~isNewsDomain(post.domain))
    /\ ~(post.score # <<>> /\ post.score[1] < minScoreThreshold(c))

\* The callback of posts.filter: TRUE keeps the post.
KeepsPost(post, c) ==
    \/ post.source = "rss"
    \/ /\ ~(c.requireExternalLink /\ ~startsWithHttp(post.url))
       /\ ~(c.requireNewsDomain /\ post.domain # <<>> /\ ~isNewsDomain(post.domain))
       /\ ~(post.score # <<>> /\ post.score[1] < minScoreThreshold(c))

\* The callback throws: startsWith is read of an undefined url.
KeepsPostThrows(post, c) ==
    /\ post.source # "rss"
    /\ c.requireExternalLink
    /\ post.url = <<>>

filterPosts(list, conf) ==
    LET c == ConfigOrDefault(conf) IN
    IF \E i \in 1..Len(list) : KeepsPostThrows(list[i], c) THEN Threw
    ELSE Returned(SelectSeqBy(list, [p \in Range(list) |-> KeepsPost(p, c)]))

(***************************************************************************)
(* NewsService.sortPosts: Array.prototype.sort is stable; the comparator   *)
(* is below.  A NaN result (an Invalid Date) counts as 0.  Reading         *)
(* title.length of a post without title is a TypeError.                    *)
(***************************************************************************)
ONE_LINER_LENGTH == 100

isOneLiner(post) == post.title[1] < ONE_LINER_LENGTH

byDate(a, b) ==
    IF a.publishedAt = <<>> \/ b.publishedAt = <<>> THEN 0
    ELSE b.publishedAt[1] - a.publishedAt[1]

compare(a, b, c) ==
    IF c.deprioritizeOneLiners /\ isOneLiner(a) /\ ~isOneLiner(b) THEN 1
    ELSE IF c.deprioritizeOneLiners /\ ~isOneLiner(a) /\ isOneLiner(b) THEN -1
    ELSE byDate(a, b)

\* Stable insertion: x goes behind every element that does not sort after it.
RECURSIVE InsertSorted(_, _, _)
InsertSorted(sorted, x, c) ==
    IF sorted = <<>> THEN <<x>>
    ELSE IF compare(sorted[Len(sorted)], x, c) <= 0 THEN Append(sorted, x)
         ELSE Append(InsertSorted(SubSeq(sorted, 1, Len(sorted) - 1), x, c),
                     sorted[Len(sorted)])

RECURSIVE StableSort(_, _)
StableSort(list, c) ==
    IF list = <<>> THEN <<>>
    ELSE InsertSorted(StableSort(SubSeq(list, 1, Len(list) - 1), c),
                      list[Len(list)], c)

\* The comparator runs on every element as soon as there are two.
sortThrows(list, c) ==
    /\ c.deprioritizeOneLiners
    /\ Len(list) >= 2
    /\ \E i \in 1..Len(list) : list[i].title = <<>>

\* Array.prototype.sort reads a NaN of the comparator (an Invalid Date in
\* the subtraction) as 0.  The comparator is then a consistent one when
\* "equal", "before" and "after" are transitive over the posts of the list;
\* when it is not, the order sort leaves is the engine's choice.
comparatorConsistent(list, c) ==
    \A x, y, z \in Range(list) :
        /\ (compare(x, y, c) = 0 /\ compare(y, z, c) = 0) => compare(x, z, c) = 0
        /\ (compare(x, y, c) < 0 /\ compare(y, z, c) < 0) => compare(x, z, c) < 0
        /\ (compare(x, y, c) > 0 /\ compare(y, z, c) > 0) => compare(x, z, c) > 0

Reorderings(list) ==
    { [i \in 1..Len(list) |-> list[f[i]]] : f \in Permutations(1..Len(list)) }

\* A sort that ignores the one-liner rule.
SortedByDateOnly(list, c) ==
    StableSort(list, [c EXCEPT !.deprioritizeOneLiners = FALSE])

Sorted(list, c) == StableSort(list, c)

\* The set of what sortPosts may return.
sortPosts(list, conf) ==
    LET c == ConfigOrDefault(conf) IN
    IF sortThrows(list, c) THEN {Threw}
    ELSE IF comparatorConsistent(list, c) THEN {Returned(Sorted(list, c))}
         ELSE { Returned(r) : r \in Reorderings(list) }

(***************************************************************************)
(* Articles.  RedditParser.parsePost and RSSParser.parseItem set domain to *)
(* extractDomain(url); an rss item never has a score.                      *)
(***************************************************************************)
UrlBBC == [scheme |-> "http", host |-> <<"www", "bbc", "com">>, path |-> "a"]
UrlBlog == [scheme |-> "http", host |-> <<"blog", "example">>, path |-> "b"]
UrlSelf == [scheme |-> "", host |-> <<>>, path |-> "r/self"]

Article(id, source, url, score, title, publishedAt) ==
    [id |-> id, title |-> title, url |-> url, source |-> source,
     publishedAt |-> publishedAt, domain |-> extractDomain(url), score |-> score]

(***************************************************************************)
(* The configured sources (the first two feeds and the first two           *)
(* communities of newsConfig: the loops treat every entry alike), and the  *)
(* state of the pipeline before the first call.                            *)
(***************************************************************************)
RSS_FEEDS == <<"BBC", "NPR">>
REDDIT_SUBREDDITS == <<"worldnews", "technology">>
Sources == Range(RSS_FEEDS) \cup Range(REDDIT_SUBREDDITS)

NoCall == [slot |-> <<>>, now |-> 0]

PipeInit ==
    /\ now = 0
    /\ slot = <<>>
    /\ pc = "idle"
    /\ cfg = <<>>
    /\ result = <<>>
    /\ fresh = FALSE
    /\ rssPos = 0
    /\ redditPos = 0
    /\ rssItems = <<>>
    /\ redditPosts = <<>>
    /\ net = [s \in Sources |-> "none"]
    /\ issued = {}
    /\ atCall = NoCall
    /\ calls = 0
    /\ cleared = <<>>
    /\ rejected = {}
    /\ faults = {}

(***************************************************************************)
(* The explanation cache (CacheService).  An article is known by its url,  *)
(* a url is the sequence of its character codes.  simpleHash is the        *)
(* rolling hash h = 31 * h + code, kept in 32 bits and made non-negative;  *)
(* the urls of the model are short enough for h to stay below 2^31.  The   *)
(* text of the key (prefix and base-36 digits) is one-to-one with the hash *)
(* value.                                                                  *)
(***************************************************************************)
RECURSIVE HashFrom(_, _)
HashFrom(hash, str) ==
    IF str = <<>> THEN hash
    ELSE HashFrom(((hash * 32) - hash) + Head(str), Tail(str))

Abs(x) == IF x < 0 THEN -x ELSE x

simpleHash(str) == Abs(HashFrom(0, str))

getCacheKey(url) == simpleHash(url)

CacheUrls == {<<65, 97>>, <<67>>}
CacheKeys == { getCacheKey(u) : u \in CacheUrls }
Payloads == {"p1", "p2"}
Callers == {1, 2}

EXPLANATION_EXPIRY_DAYS == 7

\* A caller without a call in progress.
IdleProc ==
    [op |-> "none", pc |-> "idle", item |-> <<>>, payload |-> "", key |-> 0,
     idx |-> [shape |-> "ok", keys |-> <<>>, lastCleanup |-> 0],
     pos |-> 0, valid |-> <<>>, read |-> <<>>, ret |-> <<>>, count |-> 0,
     checked |-> 0, alone |-> TRUE]

CacheInit ==
    /\ store = [k \in CacheKeys |-> <<>>]
    /\ index = <<>>
    /\ procs = [p \in Callers |-> IdleProc]
    /\ prev = <<>>

(***************************************************************************)
(* AIService.  The clock of the model starts when the service is built, so *)
(* the initial lastRequestTime (the epoch) lies at least RATE_LIMIT_MS     *)
(* before every time of the model.  An explanation is a record of its four *)
(* fields, each <<>> (undefined) or <<text>>; a text is a pair of strings, *)
(* a template and what is filled in.  JSON.stringify leaves out an         *)
(* undefined field and JSON.parse gives back an object without it, so an   *)
(* explanation comes back from the store as it went in.                    *)
(***************************************************************************)
RATE_LIMIT_MS == 2000
REQUEST_TIMEOUT_MS == 30000

Epoch == 0 - RATE_LIMIT_MS

MaxExplains == 2        \* explainNews calls of a behaviour
MaxMilliseconds == 2    \* single milliseconds that pass in a behaviour

\* The articles explainNews is called with: an item of the BBC feed and a
\* post of r/worldnews without domain.  A source name is the sequence of
\* its parts, "r/" the first part of the name of a community.
ExplainItems ==
    { [url |-> <<65, 97>>, title |-> "A", domain |-> <<"bbc.co.uk">>,
       sourceName |-> <<"BBC">>],
      [url |-> <<67>>, title |-> "C", domain |-> <<>>,
       sourceName |-> <<"r/", "worldnews">>] }

\* An explainNews frame without a call.
IdleEx ==
    [pc |-> "idle", item |-> <<>>, ret |-> <<>>, hit |-> FALSE, reply |-> "",
     mocked |-> FALSE, called |-> FALSE, deadline |-> 0, sentAt |-> 0,
     after |-> <<>>]

\* The home screen before any tap: no article selected, no explanation;
\* shownFor is the url of the request whose result is the explanation
\* held; h[p] is the handleIlluminate call of caller p.
IdleHandler == [pc |-> "idle", item |-> <<>>]

UiInit ==
    [selectedItem |-> <<>>, modalVisible |-> FALSE, illuminateLoading |-> FALSE,
     explanation |-> <<>>, fromCache |-> FALSE, shownFor |-> <<>>,
     h |-> [p \in Callers |-> IdleHandler]]

AiInit(apiKey) ==
    /\ ai = [openai |-> apiKey, lastRequestTime |-> Epoch, starts |-> <<>>,
             started |-> 0, resolved |-> <<>>, prefs |-> <<>>,
             storage |-> "up"]
    /\ ex = [p \in Callers |-> IdleEx]
    /\ ui = UiInit

(***************************************************************************)
(* Harness of deduplicatePosts: every list of at most MaxLen articles over *)
(* two urls, both source types and the scores absent, 0, 5 and 50; two ids *)
(* tell apart articles that agree in everything else.                      *)
(***************************************************************************)
DedupeItems ==
    { Article(id, "rss", <<u>>, <<>>, <<120>>, <<1>>) :
        id \in {1, 2}, u \in {UrlBBC, UrlBlog} }
    \cup
    { Article(x[1], "reddit", <<x[2]>>, x[3], <<120>>, <<1>>) :
        x \in {1, 2} \X {UrlBBC, UrlBlog} \X {<<>>, <<0>>, <<5>>, <<50>>} }

InitDedupe ==
    /\ posts \in SeqsUpTo(DedupeItems, MaxLen)
    /\ config = <<>>
    /\ out = <<>>
    /\ op = "input"
    /\ PipeInit
    /\ CacheInit
    /\ AiInit(FALSE)

RunDedupe ==
    /\ op = "input"
    /\ out' = deduplicatePosts(posts)
    /\ op' = "dedupe"
    /\ UNCHANGED <<posts, config>>
    /\ UNCHANGED pipeVars
    /\ UNCHANGED <<cacheVars, aiVars>>

\* The function applied to its own output.
RunDedupeAgain ==
    /\ op = "dedupe"
    /\ out' = deduplicatePosts(out)
    /\ op' = "dedupe2"
    /\ UNCHANGED <<posts, config>>
    /\ UNCHANGED pipeVars
    /\ UNCHANGED <<cacheVars, aiVars>>

NextDedupe == RunDedupe \/ RunDedupeAgain

SpecDedupe == InitDedupe /\ [][NextDedupe]_vars

(***************************************************************************)
(* Harness of filterPosts: every list of at most MaxFilterLen articles,    *)
(* under every configuration of the two link rules and the minScore values *)
(* absent, 0, 10 and 20, and with the configuration omitted.               *)
(***************************************************************************)
FilterItems ==
    { Article(1, "rss", <<u>>, <<>>, <<120>>, <<1>>) :
        u \in {UrlBBC, UrlBlog, UrlSelf} }
    \cup
    { Article(2, "reddit", x[1], x[2], <<120>>, <<1>>) :
        x \in {<<UrlBBC>>, <<UrlBlog>>, <<UrlSelf>>, <<>>} \X {<<>>, <<5>>, <<10>>} }

FilterConfigs ==
    {<<>>} \cup
    { <<[requireExternalLink |-> x[1], requireNewsDomain |-> x[2],
         deprioritizeOneLiners |-> TRUE, minScore |-> x[3]]>> :
        x \in BOOLEAN \X BOOLEAN \X {<<>>, <<0>>, <<10>>, <<20>>} }

InitFilter ==
    /\ posts \in SeqsUpTo(FilterItems, MaxFilterLen)
    /\ config \in FilterConfigs
    /\ out = <<>>
    /\ op = "input"
    /\ PipeInit
    /\ CacheInit
    /\ AiInit(FALSE)

RunFilter ==
    /\ op = "input"
    /\ out' = filterPosts(posts, config)
    /\ op' = "filter"
    /\ UNCHANGED <<posts, config>>
    /\ UNCHANGED pipeVars
    /\ UNCHANGED <<cacheVars, aiVars>>

NextFilter == RunFilter

SpecFilter == InitFilter /\ [][NextFilter]_vars

(***************************************************************************)
(* Harness of sortPosts: every list of at most MaxSortLen articles with    *)
(* titles of 99 and 100 characters and publishedAt 1, 2 or an Invalid Date *)
(* (new Date(pubDate) of a pubDate that does not parse), with the          *)
(* one-liner rule on, off, and the configuration omitted.                  *)
(***************************************************************************)
SortItems ==
    { Article(1, "rss", <<UrlBBC>>, <<>>, x[1], x[2]) :
        x \in {<<99>>, <<100>>} \X {<<>>, <<1>>, <<2>>} }

SortConfigs ==
    {<<>>} \cup
    { <<[requireExternalLink |-> FALSE, requireNewsDomain |-> FALSE,
         deprioritizeOneLiners |-> b, minScore |-> <<0>>]>> : b \in BOOLEAN }

InitSort ==
    /\ posts \in SeqsUpTo(SortItems, MaxSortLen)
    /\ config \in SortConfigs
    /\ out = <<>>
    /\ op = "input"
    /\ PipeInit
    /\ CacheInit
    /\ AiInit(FALSE)

RunSort ==
    /\ op = "input"
    /\ out' \in sortPosts(posts, config)
    /\ op' = "sort"
    /\ UNCHANGED <<posts, config>>
    /\ UNCHANGED pipeVars
    /\ UNCHANGED <<cacheVars, aiVars>>

NextSort == RunSort

SpecSort == InitSort /\ [][NextSort]_vars

(***************************************************************************)
(* Properties of deduplicatePosts (under SpecDedupe).                      *)
(***************************************************************************)
UrlsOf(list) == { list[i].url : i \in 1..Len(list) }

IndicesWithUrl(list, u) == { i \in 1..Len(list) : list[i].url = u }

Min(S) == CHOOSE m \in S : \A n \in S : m <= n

\* C6: deduplication keys on url, not id: the output has exactly one item
\* for each distinct url of the input, every output item is an item of the
\* input, and no two output items share a url.
C6_DedupKeysOnUrl ==
    op = "dedupe" =>
        /\ \A u \in UrlsOf(posts) : Cardinality(IndicesWithUrl(out, u)) = 1
        /\ Range(out) \subseteq Range(posts)
        /\ \A i, j \in 1..Len(out) : i # j => out[i].url # out[j].url

\* Two inputs with one url and different ids collapsed, and two inputs with
\* one id and different urls both survived.
C6_Witness ==
    /\ op = "dedupe"
    /\ \E i, j \in 1..Len(posts) :
          posts[i].url = posts[j].url /\ posts[i].id # posts[j].id
    /\ \E i, j \in 1..Len(posts) :
          /\ posts[i].url # posts[j].url /\ posts[i].id = posts[j].id
          /\ posts[i] \in Range(out) /\ posts[j] \in Range(out)
    /\ Len(out) < Len(posts)

\* C7: an rss item always wins over a reddit item with the same url,
\* whatever their order and whatever the reddit item's score: if any rss
\* item of the input has a url, the survivor for that url is an rss item.
C7_RssWins ==
    op = "dedupe" =>
        \A i \in 1..Len(posts) : \A k \in 1..Len(out) :
            (posts[i].source = "rss" /\ out[k].url = posts[i].url)
                => out[k].source = "rss"

\* A reddit item of score 50 came first, the rss item with its url later,
\* and the rss item is in the output.
C7_Witness ==
    /\ op = "dedupe"
    /\ \E i, j \in 1..Len(posts) :
          /\ i < j
          /\ posts[i].source = "reddit" /\ posts[i].score = <<50>>
          /\ posts[j].source = "rss" /\ posts[j].url = posts[i].url
          /\ posts[j] \in Range(out)

\* The score as the claim counts it: an absent score is the lowest count, 0.
CountedScore(p) == IF p.score = <<>> THEN 0 ELSE p.score[1]

\* The item C8 names as survivor of the inputs with url u.
C8_Survivor(u) ==
    LET group == IndicesWithUrl(posts, u)
        rss == { i \in group : posts[i].source = "rss" }
        best == { i \in group :
                    \A j \in group : CountedScore(posts[j]) <= CountedScore(posts[i]) }
    IN  IF rss # {} THEN posts[Min(rss)] ELSE posts[Min(best)]

\* C8: among reddit items sharing a url that no rss item has, the survivor
\* has the maximum score (absent counting as lowest), and of equal scores
\* the first-seen is kept; of rss items sharing a url the first-seen is kept.
C8_HighestScoreFirstSeen ==
    op = "dedupe" =>
        \A k \in 1..Len(out) : out[k] = C8_Survivor(out[k].url)

\* Three reddit items share a url: a lower score first, then two of the
\* same higher score; the first of those two survived.
C8_Witness ==
    /\ op = "dedupe"
    /\ Len(posts) = 3
    /\ \A i \in 1..3 : posts[i].source = "reddit" /\ posts[i].url = posts[1].url
    /\ posts[1].score = <<5>> /\ posts[2].score = <<50>> /\ posts[3].score = <<50>>
    /\ posts[2].id # posts[3].id
    /\ out = <<posts[2]>>

\* C9: deduplication is idempotent: deduplicating the output again gives
\* the same items in the same order.
C9_Idempotent ==
    op = "dedupe2" => out = deduplicatePosts(posts)

\* The first pass dropped a duplicate and left at least two items.
C9_Witness ==
    /\ op = "dedupe2"
    /\ Len(out) >= 2
    /\ Len(out) < Len(posts)

(***************************************************************************)
(* Properties of filterPosts (under SpecFilter).                           *)
(***************************************************************************)
RssOnly(list) == SelectSeqBy(list, [p \in Range(list) |-> p.source = "rss"])

\* C10: filtering never removes an rss item, under any configuration: the
\* rss items of the list filterPosts returns are the rss items of its
\* input, each as often and in the same order.
C10_RssNeverFiltered ==
    (op = "filter" /\ ~out.threw) => RssOnly(out.val) = RssOnly(posts)

\* Both link rules are on, the list has an rss item that is no http link
\* or is from an untrusted domain, a reddit item was removed, the rss item
\* was not.
C10_Witness ==
    /\ op = "filter" /\ ~out.threw
    /\ config # <<>> /\ config[1].requireExternalLink /\ config[1].requireNewsDomain
    /\ config[1].minScore = <<20>>
    /\ \E i \in 1..Len(posts) :
          /\ posts[i].source = "rss"
          /\ posts[i].url \in {<<UrlSelf>>, <<UrlBlog>>}
    /\ \E i \in 1..Len(posts) :
          posts[i].source = "reddit" /\ posts[i] \notin Range(out.val)
    /\ Len(out.val) = 1

RedditOnly(list) == SelectSeqBy(list, [p \in Range(list) |-> p.source # "rss"])

\* The minimum score in force: the caller's minScore, 10 when the caller
\* gives no configuration or a configuration without minScore.
C11_MinScore == IF config = <<>> \/ config[1].minScore = <<>> THEN 10
                ELSE config[1].minScore[1]

C11_LinkRule == config = <<>> \/ config[1].requireExternalLink
C11_DomainRule == config = <<>> \/ config[1].requireNewsDomain

C11_Kept(p) ==
    /\ ~C11_LinkRule \/ (p.url # <<>> /\ p.url[1].scheme = "http")
    /\ \/ ~C11_DomainRule
       \/ p.domain = <<>>
       \/ \E trusted \in TRUSTED_NEWS_DOMAINS : Includes(p.domain, trusted)
    /\ p.score = <<>> \/ p.score[1] >= C11_MinScore

\* C11: filterPosts keeps an aggregator item if and only if (a) the link
\* rule is off or its url starts with http, (b) the domain rule is off or
\* its domain is absent or contains a trusted domain, and (c) its score is
\* absent or at least minScore (10 when no configuration or no minScore is
\* given): the aggregator items of the returned list are exactly those of
\* the input that meet (a), (b) and (c), each as often and in input order.
C11_KeepsIff ==
    (op = "filter" /\ ~out.threw) =>
        RedditOnly(out.val) =
            SelectSeqBy(RedditOnly(posts),
                        [p \in Range(RedditOnly(posts)) |-> C11_Kept(p)])

\* A configuration without minScore and with both link rules on; one
\* aggregator item of score 5 from a trusted domain is dropped by the
\* default minimum of 10, one of score 10 is kept.
C11_Witness ==
    /\ op = "filter" /\ ~out.threw
    /\ config # <<>> /\ config[1].minScore = <<>>
    /\ config[1].requireExternalLink /\ config[1].requireNewsDomain
    /\ Len(posts) = 2 /\ Len(out.val) = 1
    /\ \A i \in 1..2 : posts[i].source = "reddit" /\ posts[i].url = <<UrlBBC>>
    /\ posts[1].score = <<5>> /\ posts[2].score = <<10>>
    /\ out.val[1] = posts[2]

(***************************************************************************)
(* Properties of sortPosts (under SpecSort).                               *)
(***************************************************************************)
C12_OneLinersLast == config = <<>> \/ config[1].deprioritizeOneLiners

C12_Long(p) == p.title[1] >= 100

\* publishedAt of a before b is in order when a is not older than b; a pair
\* with an Invalid Date is not compared.
C12_DateOrdered(a, b) ==
    \/ a.publishedAt = <<>>
    \/ b.publishedAt = <<>>
    \/ a.publishedAt[1] >= b.publishedAt[1]

C12_InOrder(list) ==
    \A i, j \in 1..Len(list) :
        i < j =>
            IF C12_OneLinersLast
            THEN /\ ~(~C12_Long(list[i]) /\ C12_Long(list[j]))
                 /\ C12_Long(list[i]) = C12_Long(list[j])
                        => C12_DateOrdered(list[i], list[j])
            ELSE C12_DateOrdered(list[i], list[j])

\* C12: in the list sortPosts returns with the one-liner rule on, every
\* item with a title of 100 or more characters is before every item with
\* a shorter title, and each of the two groups is in non-increasing
\* publishedAt order; with the rule off the whole list is in
\* non-increasing publishedAt order.
C12_SortedAsSpecified ==
    (op = "sort" /\ ~out.threw) => C12_InOrder(out.val)

\* The same order, for the lists whose items all have a valid publishedAt.
C12_SortedWhenDatesValid ==
    (op = "sort" /\ ~out.threw /\ \A i \in 1..Len(posts) : posts[i].publishedAt # <<>>)
        => /\ C12_InOrder(out.val)
           /\ out.val \in Reorderings(posts)

(***************************************************************************)
(* RedditParser and RSSParser.  A raw post is the `data` of one child of   *)
(* the listing; a raw feed item carries what extractXMLTag finds in it: an *)
(* absent or empty tag is <<>>.  The text of a raw title is a sequence of   *)
(* pieces: a stretch of markup "<...>" (a CDATA section is one such        *)
(* stretch, its content has no ">"), a stretch of other characters, an     *)
(* entity that stands for a character, an entity that stands for a space,  *)
(* or a space; a piece has the number of its characters.  The title of an  *)
(* Article is kept by its length.                                          *)
(***************************************************************************)
Tag(n) == [kind |-> "tag", len |-> n]
Chars(n) == [kind |-> "chars", len |-> n]
Amp == [kind |-> "amp", len |-> 5]
Nbsp == [kind |-> "nbsp", len |-> 6]
Space == [kind |-> "space", len |-> 1]

RECURSIVE MapPosts(_, _)
filterValidPosts(raw) ==
    SelectSeqBy(raw, [p \in Range(raw) |-> ~p.stickied /\ ~p.over_18])

parsePost(post, subreddit) ==
    [id |-> <<post.id>>,
     title |-> post.title,
     url |-> post.url,
     score |-> post.score,
     source |-> "reddit",
     publishedAt |-> IF post.created_utc = <<>> THEN <<>>
                     ELSE <<post.created_utc[1] * 1000>>,
     domain |-> extractDomain(post.url)]

MapPosts(raw, subreddit) ==
    IF raw = <<>> THEN <<>>
    ELSE <<parsePost(Head(raw), subreddit)>> \o MapPosts(Tail(raw), subreddit)

RECURSIVE TrimStart(_)
RECURSIVE TextLength(_)
\* .replace(/<[^>]*>/g, '')
StripMarkup(text) == SelectSeqBy(text, [tok \in Range(text) |-> tok.kind # "tag"])

\* the replacements of the entities
DecodeEntities(text) ==
    [i \in 1..Len(text) |->
        IF text[i].kind = "amp" THEN Chars(1)
        ELSE IF text[i].kind = "nbsp" THEN Space
        ELSE text[i]]

TrimStart(text) ==
    IF text = <<>> THEN <<>>
    ELSE IF Head(text).kind = "space" THEN TrimStart(Tail(text))
    ELSE text

\* .trim()
Trim(text) == Reverse(TrimStart(Reverse(TrimStart(text))))

TextLength(text) ==
    IF text = <<>> THEN 0 ELSE Head(text).len + TextLength(Tail(text))

\* the length of the cleaned title
cleanHTML(title) == TextLength(Trim(DecodeEntities(StripMarkup(title))))

\* new Date(pubDate), and new Date() when the feed item has no pubDate
parseDate(pubDate, t) ==
    IF pubDate = <<>> THEN <<t>>
    ELSE IF pubDate[1].ok THEN <<pubDate[1].time>> ELSE <<>>

\* <<>> is the null of an item without title or link
parseItem(item, feed, t) ==
    IF item.title = <<>> \/ item.link = <<>> THEN <<>>
    ELSE <<[id |-> <<"rss", feed, item.link[1]>>,
            title |-> <<cleanHTML(item.title[1])>>,
            url |-> item.link,
            score |-> <<>>,
            source |-> "rss",
            publishedAt |-> parseDate(item.pubDate, t),
            domain |-> extractDomain(item.link)]>>

RECURSIVE parseFeed(_, _, _)
parseFeed(items, feed, t) ==
    IF items = <<>> THEN <<>>
    ELSE parseItem(Head(items), feed, t) \o parseFeed(Tail(items), feed, t)

(***************************************************************************)
(* What the servers can answer.  A response is [failed, body]: failed is a *)
(* network error or a timeout of axios.get; body is <<>> when the payload  *)
(* has not the expected structure (no data.children in the listing, no    *)
(* text in the feed response), and <<list>> otherwise.                     *)
(***************************************************************************)
UrlNPR == [scheme |-> "http", host |-> <<"www", "npr", "org">>, path |-> "n"]
UrlArs == [scheme |-> "http", host |-> <<"arstechnica", "com">>, path |-> "t"]
UrlReuters == [scheme |-> "http", host |-> <<"uk", "reuters", "com">>, path |-> "r"]

RawItem(title, link, time) ==
    [title |-> title, link |-> link, pubDate |-> <<[ok |-> TRUE, time |-> time]>>]

(***************************************************************************)
(* RSSParser.parseFeed on its own: the items of a feed are drawn from      *)
(* FeedItems, the feed is parsed at one of ParseTimes.  Of a pubDate the   *)
(* model keeps whether Date can parse it, and the time it stands for.      *)
(***************************************************************************)
MaxFeedLen == 2

RawTitles ==
    { <<Chars(40)>>,
      <<Chars(3), Amp, Chars(4)>>,
      <<Tag(3), Space, Chars(5), Tag(4)>>,
      <<Tag(25)>>,
      <<Nbsp>> }

PubDates == { <<>>, <<[ok |-> TRUE, time |-> 3000]>>, <<[ok |-> FALSE, time |-> 0]>> }

FeedItems ==
    [title : {<<>>} \cup { <<text>> : text \in RawTitles },
     link : {<<>>, <<UrlNPR>>},
     pubDate : PubDates]

ParseTimes == {7000, 8000}

InitParse ==
    /\ posts \in SeqsUpTo(FeedItems, MaxFeedLen)
    /\ config \in {"BBC", "NPR"}
    /\ out = <<>>
    /\ op = "input"
    /\ PipeInit
    /\ CacheInit
    /\ AiInit(FALSE)

RunParse ==
    /\ op = "input"
    /\ \E t \in ParseTimes :
          /\ now' = t
          /\ out' = [threw |-> FALSE, val |-> parseFeed(posts, config, t)]
    /\ op' = "parse"
    /\ UNCHANGED <<posts, config>>
    /\ UNCHANGED servVars
    /\ UNCHANGED <<cacheVars, aiVars>>

NextParse == RunParse

SpecParse == InitParse /\ [][NextParse]_vars

RawPost(id, title, url, score, created, stickied) ==
    [id |-> id, title |-> title, url |-> url, score |-> <<score>>,
     created_utc |-> <<created>>, stickied |-> stickied, over_18 |-> FALSE]

NetworkError == [failed |-> TRUE, body |-> <<>>]
BadShape == [failed |-> FALSE, body |-> <<>>]
Payload(list) == [failed |-> FALSE, body |-> <<list>>]

Kinds ==
    [BBC |-> {"ok", "error"},
     NPR |-> {"ok", "error", "notxml"},
     worldnews |-> {"ok", "error", "nourl"},
     technology |-> {"ok", "error", "badshape", "notitle"}]

PostW1 == RawPost("w1", <<110>>, <<UrlBBC>>, 50, 4, FALSE)
PostT2 == RawPost("t2", <<130>>, <<UrlArs>>, 30, 1, FALSE)

Response(source, kind) ==
    IF kind = "error" THEN NetworkError
    ELSE IF kind \in {"badshape", "notxml"} THEN BadShape
    ELSE IF source = "BBC" THEN
        Payload(<< RawItem(<<<<Tag(3), Chars(120), Tag(4), Nbsp>>>>, <<UrlBBC>>, 3000),
                   RawItem(<<>>, <<UrlBlog>>, 1000) >>)
    ELSE IF source = "NPR" THEN
        Payload(<< RawItem(<<<<Chars(19), Amp, Chars(20)>>>>, <<UrlNPR>>, 5000) >>)
    ELSE IF source = "worldnews" /\ kind = "ok" THEN
        Payload(<< PostW1,
                   RawPost("w2", <<20>>, <<UrlSelf>>, 900, 9, TRUE),
                   RawPost("w3", <<105>>, <<UrlBlog>>, 50, 2, FALSE) >>)
    ELSE IF source = "worldnews" THEN  \* a post without url
        Payload(<< PostW1, RawPost("w4", <<100>>, <<>>, 60, 6, FALSE) >>)
    ELSE IF kind = "ok" THEN
        Payload(<< RawPost("t1", <<30>>, <<UrlArs>>, 5, 7, FALSE), PostT2 >>)
    ELSE  \* a post without title
        Payload(<< PostT2, RawPost("t3", <<>>, <<UrlReuters>>, 40, 8, FALSE) >>)

(***************************************************************************)
(* One iteration of the loop of fetchRSSNews / fetchRedditNews: the try    *)
(* block pushes what the response parses to, the catch block nothing; the  *)
(* loop goes on with the next entry in both cases.                         *)
(***************************************************************************)
rssItemsOf(resp, feed, t) ==
    IF resp.failed \/ resp.body = <<>> THEN <<>>
    ELSE parseFeed(resp.body[1], feed, t)

redditPostsOf(resp, subreddit) ==
    IF resp.failed \/ resp.body = <<>> THEN <<>>
    ELSE MapPosts(filterValidPosts(resp.body[1]), subreddit)

\* A loop that a failed request ends.
AfterResponseAbort(pos, n, resp) == IF resp.failed THEN n + 1 ELSE pos + 1

AfterResponse(pos, n, resp) == pos + 1

\* The request of entry pos of a list is sent (none behind the last entry).
Requested(list, pos) == IF pos \in 1..Len(list) THEN {list[pos]} ELSE {}

(***************************************************************************)
(* The news cache slot: JSON.stringify writes a Date as its ISO text and   *)
(* an Invalid Date as null; new Date(text) reads the ISO text back, and    *)
(* new Date(null) is the epoch.                                            *)
(***************************************************************************)
toJSON(item) == [item EXCEPT !.publishedAt = [iso |-> item.publishedAt]]

rehydrate(stored) ==
    [stored EXCEPT !.publishedAt =
        IF stored.publishedAt.iso = <<>> THEN <<0>> ELSE stored.publishedAt.iso]

stringify(news, t) ==
    [data |-> [i \in 1..Len(news) |-> toJSON(news[i])], timestamp |-> t]

\* A removal that leaves the entry in the store.
removeItemNoop(s) == s

\* AsyncStorage.removeItem of the slot
removeItem(s) == <<>>

\* A staleness test that is always true.
isStaleAlways(age) == TRUE

\* A staleness test that is never true.
isStaleNever(age) == FALSE

isStale(age) == age > NEWS_DURATION

\* getCachedNews: [hit, data, slot], slot being the slot it leaves behind
\* A hit that applies the default filter configuration to the cached list.
getCachedNewsFiltered(s, t) ==
    IF s = <<>> THEN [hit |-> FALSE, data |-> <<>>, slot |-> s]
    ELSE IF isStale(t - s[1].timestamp)
         THEN [hit |-> FALSE, data |-> <<>>, slot |-> removeItem(s)]
         ELSE LET f == filterPosts([i \in 1..Len(s[1].data) |->
                                       rehydrate(s[1].data[i])], <<>>)
              IN [hit |-> TRUE,
                  data |-> IF f.threw THEN <<>> ELSE f.val,
                  slot |-> s]

getCachedNews(s, t) ==
    IF s = <<>> THEN [hit |-> FALSE, data |-> <<>>, slot |-> s]
    ELSE IF isStale(t - s[1].timestamp)
         THEN [hit |-> FALSE, data |-> <<>>, slot |-> removeItem(s)]
         ELSE [hit |-> TRUE,
               data |-> [i \in 1..Len(s[1].data) |-> rehydrate(s[1].data[i])],
               slot |-> s]

\* What the pipeline behind Promise.all computes of allNews: the set of
\* [threw, val] it can end with.
processNews(allNews, conf) ==
    LET filtered == filterPosts(deduplicatePosts(allNews), conf) IN
    IF filtered.threw THEN {Threw} ELSE sortPosts(filtered.val, conf)

(***************************************************************************)
(* fetchAllNews, one call at a time (loadNews awaits clearCache and then   *)
(* fetchAllNews).                                                          *)
(***************************************************************************)
Minute == 60 * 1000

PipeConfigs ==
    { <<>>,
      <<[requireExternalLink |-> FALSE, requireNewsDomain |-> FALSE,
         deprioritizeOneLiners |-> FALSE, minScore |-> <<0>>]>> }

Nets == { n \in [Sources -> {"ok", "error", "notxml", "nourl", "badshape", "notitle"}] :
            \A s \in Sources : n[s] \in Kinds[s] }

\* fetchAllNews up to its first suspension on the network: the cache slot is
\* read; on a hit the call resolves; on a miss fetchRSSNews and
\* fetchRedditNews both start and each sends the request of its first entry.
StartFetch ==
    /\ pc = "idle"
    /\ calls < MaxCalls
    /\ calls' = calls + 1
    /\ atCall' = [slot |-> slot, now |-> now]
    /\ \E c \in PipeConfigs : cfg' = c
    /\ LET cached == getCachedNews(slot, now) IN
       IF cached.hit
       THEN /\ pc' = "done"
            /\ result' = cached.data
            /\ fresh' = FALSE
            /\ issued' = {}
            /\ UNCHANGED <<slot, rssPos, redditPos, rssItems, redditPosts, net>>
       ELSE /\ pc' = "fetching"
            /\ slot' = cached.slot
            /\ fresh' = TRUE
            /\ net' \in Nets
            /\ rssItems' = <<>>
            /\ redditPosts' = <<>>
            /\ rssPos' = 1
            /\ redditPos' = 1
            /\ issued' = Requested(RSS_FEEDS, 1) \cup Requested(REDDIT_SUBREDDITS, 1)
            /\ result' = <<>>
    /\ UNCHANGED now
    /\ UNCHANGED callVars
    /\ UNCHANGED pureVars
    /\ UNCHANGED <<cacheVars, aiVars>>

\* The awaited request of fetchRSSNews settles; the loop sends the next one.
RssRespond ==
    /\ pc = "fetching"
    /\ rssPos \in 1..Len(RSS_FEEDS)
    /\ LET feed == RSS_FEEDS[rssPos]
           resp == Response(feed, net[feed])
           next == AfterResponse(rssPos, Len(RSS_FEEDS), resp)
       IN  /\ rssItems' = rssItems \o rssItemsOf(resp, feed, now)
           /\ rssPos' = next
           /\ issued' = issued \cup Requested(RSS_FEEDS, next)
    /\ UNCHANGED <<now, slot, pc, cfg, result, fresh, redditPos, redditPosts,
                   net, atCall, calls>>
    /\ UNCHANGED callVars
    /\ UNCHANGED pureVars
    /\ UNCHANGED <<cacheVars, aiVars>>

\* The awaited request of fetchRedditNews settles; the loop sends the next one.
RedditRespond ==
    /\ pc = "fetching"
    /\ redditPos \in 1..Len(REDDIT_SUBREDDITS)
    /\ LET subreddit == REDDIT_SUBREDDITS[redditPos]
           resp == Response(subreddit, net[subreddit])
           next == AfterResponse(redditPos, Len(REDDIT_SUBREDDITS), resp)
       IN  /\ redditPosts' = redditPosts \o redditPostsOf(resp, subreddit)
           /\ redditPos' = next
           /\ issued' = issued \cup Requested(REDDIT_SUBREDDITS, next)
    /\ UNCHANGED <<now, slot, pc, cfg, result, fresh, rssPos, rssItems,
                   net, atCall, calls>>
    /\ UNCHANGED callVars
    /\ UNCHANGED pureVars
    /\ UNCHANGED <<cacheVars, aiVars>>

\* Promise.all has both lists: deduplicate, filter, sort, cacheNews, return;
\* an exception on the way goes to the catch block, which returns [].
Finish ==
    /\ pc = "fetching"
    /\ rssPos > Len(RSS_FEEDS)
    /\ redditPos > Len(REDDIT_SUBREDDITS)
    /\ \E r \in processNews(rssItems \o redditPosts, cfg) :
          IF r.threw
          THEN /\ result' = <<>>
               /\ UNCHANGED slot
          ELSE /\ result' = r.val
               /\ slot' = <<stringify(r.val, now)>>
    /\ pc' = "done"
    /\ UNCHANGED <<now, cfg, fresh, rssPos, redditPos, rssItems, redditPosts,
                   net, issued, atCall, calls>>
    /\ UNCHANGED callVars
    /\ UNCHANGED pureVars
    /\ UNCHANGED <<cacheVars, aiVars>>

\* The caller has the list; the service is at rest again.
Return ==
    /\ pc = "done"
    /\ pc' = "idle"
    /\ cfg' = <<>>
    /\ result' = <<>>
    /\ fresh' = FALSE
    /\ rssPos' = 0
    /\ redditPos' = 0
    /\ rssItems' = <<>>
    /\ redditPosts' = <<>>
    /\ net' = [s \in Sources |-> "none"]
    /\ issued' = {}
    /\ atCall' = NoCall
    /\ cleared' = <<>>
    /\ faults' = {}
    /\ UNCHANGED <<now, slot, calls, rejected>>
    /\ UNCHANGED pureVars
    /\ UNCHANGED <<cacheVars, aiVars>>

\* clearCache, called between two calls of fetchAllNews (loadNews awaits
\* it before it calls fetchAllNews).
ClearCache ==
    /\ pc = "idle"
    /\ slot' = removeItem(slot)
    /\ cleared' = <<slot # <<>> /\ ~isStale(now - slot[1].timestamp)>>
    /\ UNCHANGED <<now, pc, cfg, result, fresh, rssPos, redditPos, rssItems,
                   redditPosts, net, issued, atCall, calls, rejected, faults>>
    /\ UNCHANGED pureVars
    /\ UNCHANGED <<cacheVars, aiVars>>

\* A minute passes.
Tick ==
    /\ now < MaxMinutes * Minute
    /\ now' = now + Minute
    /\ UNCHANGED <<slot, pc, cfg, result, fresh, rssPos, redditPos, rssItems,
                   redditPosts, net, issued, atCall, calls>>
    /\ UNCHANGED callVars
    /\ UNCHANGED pureVars
    /\ UNCHANGED <<cacheVars, aiVars>>

Init ==
    /\ posts = <<>>
    /\ config = <<>>
    /\ out = <<>>
    /\ op = "input"
    /\ PipeInit
    /\ CacheInit
    /\ AiInit(FALSE)

Next ==
    \/ StartFetch
    \/ RssRespond
    \/ RedditRespond
    \/ Finish
    \/ Return
    \/ ClearCache
    \/ Tick

Spec == Init /\ [][Next]_vars

(***************************************************************************)
(* The same service over a store whose operations can fail: getItem,       *)
(* setItem and removeItem of AsyncStorage can reject, and JSON.parse of    *)
(* what getItem returned can throw.  Which operation fails is the store's  *)
(* choice at every call.                                                   *)
(***************************************************************************)
StoreFaults == {"none", "getItem", "parse", "removeItem"}

\* getCachedNews with its try/catch: [hit, data, slot, faults].  Every
\* failure inside ends in the catch block, which returns null.
tryGetCachedNews(s, t, f) ==
    IF f = "getItem"
    THEN [hit |-> FALSE, data |-> <<>>, slot |-> s, faults |-> {"getItem"}]
    ELSE IF s = <<>>
    THEN [hit |-> FALSE, data |-> <<>>, slot |-> s, faults |-> {}]
    ELSE IF f = "parse"
    THEN [hit |-> FALSE, data |-> <<>>, slot |-> s, faults |-> {"parse"}]
    ELSE IF isStale(t - s[1].timestamp) /\ f = "removeItem"
    THEN [hit |-> FALSE, data |-> <<>>, slot |-> s, faults |-> {"removeItem"}]
    ELSE [hit |-> getCachedNews(s, t).hit,
          data |-> getCachedNews(s, t).data,
          slot |-> getCachedNews(s, t).slot,
          faults |-> {}]

\* cacheNews with its try/catch: the slot it leaves behind.
cacheNews(s, news, t, stored) ==
    IF stored THEN <<stringify(news, t)>> ELSE s

\* A fetchAllNews that lets the exception of its try block out.
outerCatchRethrow(r) == r

\* The catch block of fetchAllNews: an exception of the try block becomes
\* the return value [].
outerCatch(r) == IF r.threw THEN Returned(<<>>) ELSE r

\* How the servers answer in the behaviours with a failing store.
FaultNets ==
    { [BBC |-> "ok", NPR |-> "ok", worldnews |-> "ok", technology |-> "ok"],
      [BBC |-> "error", NPR |-> "ok", worldnews |-> "ok", technology |-> "ok"],
      [BBC |-> "error", NPR |-> "notxml", worldnews |-> "error",
       technology |-> "badshape"],
      [BBC |-> "ok", NPR |-> "ok", worldnews |-> "ok", technology |-> "notitle"] }

StartFetchFaulty ==
    /\ pc = "idle"
    /\ calls < MaxCalls
    /\ calls' = calls + 1
    /\ atCall' = [slot |-> slot, now |-> now]
    /\ cfg' = <<>>
    /\ \E f \in StoreFaults :
         LET cached == tryGetCachedNews(slot, now, f) IN
         /\ faults' = cached.faults
         /\ IF cached.hit
            THEN /\ pc' = "done"
                 /\ result' = cached.data
                 /\ fresh' = FALSE
                 /\ issued' = {}
                 /\ UNCHANGED <<slot, rssPos, redditPos, rssItems, redditPosts, net>>
            ELSE /\ pc' = "fetching"
                 /\ slot' = cached.slot
                 /\ fresh' = TRUE
                 /\ net' \in FaultNets
                 /\ rssItems' = <<>>
                 /\ redditPosts' = <<>>
                 /\ rssPos' = 1
                 /\ redditPos' = 1
                 /\ issued' = Requested(RSS_FEEDS, 1) \cup Requested(REDDIT_SUBREDDITS, 1)
                 /\ result' = <<>>
    /\ UNCHANGED <<now, cleared, rejected>>
    /\ UNCHANGED pureVars
    /\ UNCHANGED <<cacheVars, aiVars>>

FinishFaulty ==
    /\ pc = "fetching"
    /\ rssPos > Len(RSS_FEEDS)
    /\ redditPos > Len(REDDIT_SUBREDDITS)
    /\ \E r \in processNews(rssItems \o redditPosts, cfg), stored \in BOOLEAN :
          /\ result' = outerCatch(r).val
          /\ rejected' = IF outerCatch(r).threw
                         THEN rejected \cup {"fetchAllNews"} ELSE rejected
          /\ slot' = IF r.threw THEN slot ELSE cacheNews(slot, r.val, now, stored)
          /\ faults' = IF ~r.threw /\ ~stored THEN faults \cup {"setItem"} ELSE faults
    /\ pc' = "done"
    /\ UNCHANGED <<now, cfg, fresh, rssPos, redditPos, rssItems, redditPosts,
                   net, issued, atCall, calls, cleared>>
    /\ UNCHANGED pureVars
    /\ UNCHANGED <<cacheVars, aiVars>>

\* clearCache has no try/catch: a rejected removeItem rejects clearCache.
ClearCacheFaulty ==
    /\ pc = "idle"
    /\ \E removed \in BOOLEAN :
          IF removed
          THEN /\ slot' = removeItem(slot)
               /\ cleared' = <<slot # <<>> /\ ~isStale(now - slot[1].timestamp)>>
               /\ UNCHANGED rejected
          ELSE /\ rejected' = rejected \cup {"clearCache"}
               /\ UNCHANGED <<slot, cleared>>
    /\ UNCHANGED <<now, pc, cfg, result, fresh, rssPos, redditPos, rssItems,
                   redditPosts, net, issued, atCall, calls, faults>>
    /\ UNCHANGED pureVars
    /\ UNCHANGED <<cacheVars, aiVars>>

NextFaulty ==
    \/ StartFetchFaulty
    \/ RssRespond
    \/ RedditRespond
    \/ FinishFaulty
    \/ Return
    \/ ClearCacheFaulty
    \/ Tick

SpecFaulty == Init /\ [][NextFaulty]_vars

(***************************************************************************)
(* Properties of fetchAllNews (under Spec).                                *)
(***************************************************************************)
CalledWithSlot == pc # "idle" /\ atCall.slot # <<>>

AgeAtCall == atCall.now - atCall.slot[1].timestamp

CachedList(s) == [i \in 1..Len(s[1].data) |-> rehydrate(s[1].data[i])]

\* C1: fetchAllNews called while the news cache slot is present and younger
\* than the 5-minute TTL returns the cached list and sends no request to
\* any feed or community.
C1_CacheHitNoNetwork ==
    (CalledWithSlot /\ AgeAtCall < NEWS_DURATION) =>
        /\ pc = "done"
        /\ ~fresh
        /\ issued = {}
        /\ result = CachedList(atCall.slot)
        /\ slot = atCall.slot

\* The slot was written four minutes before the call and holds a list.
C1_Witness ==
    /\ pc = "done"
    /\ atCall.slot # <<>>
    /\ AgeAtCall = 4 * Minute
    /\ result # <<>>
    /\ issued = {}

\* What this call's fetch cycle computed of the lists it gathered ([] when
\* the pipeline ended in the catch block).
CycleResults ==
    { IF r.threw THEN <<>> ELSE r.val :
        r \in processNews(rssItems \o redditPosts, cfg) }

\* C2: fetchAllNews called when the slot is older than the TTL discards the
\* stale slot, runs a fetch cycle over the sources and returns the list
\* that cycle computed, not the stale one.
C2_StaleRefetched ==
    (CalledWithSlot /\ AgeAtCall > NEWS_DURATION) =>
        /\ fresh
        /\ issued # {}
        /\ slot # atCall.slot
        /\ pc = "fetching" => slot = <<>>
        /\ pc = "done" => issued = Sources /\ result \in CycleResults

\* The slot was six minutes old at the call; the call returned a list that
\* differs from the one the slot held.
C2_Witness ==
    /\ pc = "done"
    /\ atCall.slot # <<>>
    /\ AgeAtCall = 6 * Minute
    /\ atCall.slot[1].data # <<>>
    /\ result # <<>>
    /\ result # CachedList(atCall.slot)

\* The articles of the sources that answered with a well-formed payload, in
\* the order of the configured lists.
RECURSIVE FeedItemsOk(_, _)
FeedItemsOk(feeds, n) ==
    IF feeds = <<>> THEN <<>>
    ELSE (IF n[Head(feeds)] = "ok"
          THEN rssItemsOf(Response(Head(feeds), "ok"), Head(feeds), 0)
          ELSE <<>>) \o FeedItemsOk(Tail(feeds), n)

RECURSIVE SubPostsOk(_, _)
SubPostsOk(subs, n) ==
    IF subs = <<>> THEN <<>>
    ELSE (IF n[Head(subs)] = "ok"
          THEN redditPostsOf(Response(Head(subs), "ok"), Head(subs))
          ELSE <<>>) \o SubPostsOk(Tail(subs), n)

OkItems(n) == FeedItemsOk(RSS_FEEDS, n) \o SubPostsOk(REDDIT_SUBREDDITS, n)

\* C3: in a fetch cycle a network error or timeout of a source makes that
\* source contribute nothing and never aborts the cycle: for every subset
\* of failing sources the call returns the deduplicated, filtered and
\* sorted articles of all the sources that succeeded.
C3_FailureIsolated ==
    (pc = "done" /\ fresh /\ \A s \in Sources : net[s] \in {"ok", "error"}) =>
        Returned(result) \in processNews(OkItems(net), cfg)

\* The first feed and the first community failed, the second of each
\* answered, and the returned list has the articles of both.
C3_Witness ==
    /\ pc = "done" /\ fresh
    /\ net = [BBC |-> "error", NPR |-> "ok",
              worldnews |-> "error", technology |-> "ok"]
    /\ \E i, j \in 1..Len(result) :
          result[i].source = "rss" /\ result[j].source = "reddit"

\* C4: a malformed payload of one source (a post without url, a response
\* without the expected structure) makes only that source contribute
\* nothing: the call still returns the articles of every other source.
C4_MalformedIsolated ==
    (pc = "done" /\ fresh) => Returned(result) \in processNews(OkItems(net), cfg)

\* C5: in a fetch cycle the requests to every feed and every community are
\* sent before any of them is waited for: whenever the call is suspended on
\* the network, every source's request has been sent.
C5_AllRequestsInFlight ==
    pc = "fetching" => issued = Sources

\* The slot holds the list and a timestamp of this call (the clock may have
\* moved on since the call returned).
HoldsReturned(s, list) ==
    /\ s # <<>>
    /\ s[1].data = stringify(list, 0).data
    /\ s[1].timestamp \in atCall.now..now

\* C13: after a fresh fetch cycle the news cache slot holds exactly the
\* returned ordered list together with the timestamp of the cycle, whatever
\* it held before; a later call within the TTL returns the items of the
\* slot in the same order.
C13_CacheHoldsReturned ==
    /\ (pc = "done" /\ fresh) => HoldsReturned(slot, result)
    /\ (pc = "done" /\ ~fresh) => result = CachedList(slot)

\* The same, for the fetch cycles that reach cacheNews: the slot a fresh
\* cycle leaves is absent only when the pipeline ended in the catch block.
C13_CacheHoldsReturnedWhenCompleted ==
    /\ (pc = "done" /\ fresh /\ slot # <<>>) =>
            /\ HoldsReturned(slot, result)
            /\ CachedList(slot) = result
    /\ (pc = "done" /\ fresh /\ slot = <<>>) =>
            /\ result = <<>>
            /\ Threw \in processNews(rssItems \o redditPosts, cfg)
    /\ (pc = "done" /\ ~fresh) => result = CachedList(slot)

\* cacheNews writes the list being returned with the time of the write.
C13_WriteIsCurrent ==
    [][(pc = "fetching" /\ pc' = "done" /\ slot' # <<>>)
            => slot' = <<stringify(result', now')>>]_vars

\* C14: after clearCache completes the news cache slot is absent, and the
\* next fetchAllNews runs a fresh fetch cycle over every source, however
\* young the removed slot was.
C14_ClearForcesFresh ==
    cleared # <<>> =>
        /\ pc = "idle" => slot = <<>>
        /\ pc # "idle" => fresh /\ atCall.slot = <<>> /\ issued # {}
        /\ pc = "done" => issued = Sources /\ result \in CycleResults

\* The slot was written, removed and asked for again within the same
\* minute: the second call has requested every source.
C14_Witness ==
    /\ cleared = <<TRUE>>
    /\ calls = 2
    /\ pc = "done" /\ fresh
    /\ atCall.now = 0
    /\ issued = Sources
    /\ result # <<>>

(***************************************************************************)
(* Properties of the service over a failing store (under SpecFaulty).      *)
(***************************************************************************)
\* C15: fetchAllNews never rejects: whatever fails among the sources, the
\* parsing and the store's reads and writes, it resolves with a list (the
\* cached list on a hit, the list of its fetch cycle otherwise), and with
\* the empty list when something fails outside the per-source boundaries.
C15_NeverRejects ==
    /\ "fetchAllNews" \notin rejected
    /\ (pc = "done" /\ ~fresh) => result = CachedList(atCall.slot)
    /\ (pc = "done" /\ fresh) => result \in CycleResults
    /\ (pc = "done" /\ fresh /\ Threw \in processNews(rssItems \o redditPosts, cfg))
            => result = <<>>

\* The read of a populated slot failed, a feed failed, the write of the
\* new list failed, and the call returned the list of the cycle.
C15_Witness ==
    /\ pc = "done" /\ fresh
    /\ atCall.slot # <<>>
    /\ faults = {"getItem", "setItem"}
    /\ net["BBC"] = "error"
    /\ result # <<>>
    /\ slot = atCall.slot

\* C16: no public operation of the pipeline throws past its boundary:
\* clearCache resolves even when the store's remove operation fails.
C16_NoOperationRejects == rejected = {}

(***************************************************************************)
(* CacheService.  AsyncStorage serves its requests in the order they are   *)
(* sent, so a request takes effect when it is sent; a call advances when   *)
(* the answer to its last request arrives: the code up to the next request *)
(* runs, and that request is sent.  pc names the request a call waits for. *)
(***************************************************************************)
maxAge == EXPLANATION_EXPIRY_DAYS * 24 * 60 * 60 * 1000

\* An expiry test that is always true.
isExpiredAlways(age) == TRUE

\* An expiry test that counts an entry of exactly the TTL as expired.
isExpiredAtTTL(age) == age >= maxAge

isExpired(age) == age > maxAge

EmptyIndex(t) == [shape |-> "ok", keys |-> <<>>, lastCleanup |-> t]

\* The getIndex of the earlier variant: JSON.parse of the text, as it is.
getIndexUnvalidated(stored, t) ==
    IF stored = <<>> \/ stored[1].shape = "notjson" THEN EmptyIndex(t)
    ELSE stored[1]

\* getIndex: the index record a caller gets from the stored text.  The
\* shapes of a stored text: "ok" ({keys: [...], lastCleanup}), "notjson"
\* (JSON.parse throws), "nokeys" (no keys field), "notarray" (keys is not
\* an array).
getIndex(stored, t) ==
    IF stored = <<>> THEN EmptyIndex(t)
    ELSE IF stored[1].shape = "notjson" THEN EmptyIndex(t)
    ELSE IF stored[1].shape \in {"nokeys", "notarray"} THEN EmptyIndex(t)
    ELSE stored[1]

\* index.keys || [], and the Array.isArray guard of setExplanation
KeysOf(idx) == IF idx.shape = "ok" THEN idx.keys ELSE <<>>

\* A test that never finds the key.
keysIncludeNever(keys, key) == FALSE

\* index.keys.includes(key)
keysInclude(keys, key) == key \in Range(keys)

Entry(explanation, t, url) ==
    [shape |-> "ok", explanation |-> explanation, timestamp |-> t, url |-> url]

St(proc, st, ix) == [proc |-> proc, store |-> st, index |-> ix]

\* The call returns: what it no longer needs is dropped.
Done(proc) ==
    [proc EXCEPT !.pc = "done", !.idx = IdleProc.idx, !.pos = 0,
                 !.valid = <<>>]

\* A cleanup that writes the index back with the keys it read.
LoopToKeepKeys(proc, i) ==
    IF i <= Len(KeysOf(proc.idx))
    THEN St([proc EXCEPT !.pc = "item", !.pos = i,
                         !.read = store[KeysOf(proc.idx)[i]]], store, index)
    ELSE IF proc.op = "stats"
    THEN St(Done([proc EXCEPT !.count = Len(KeysOf(proc.idx)), !.read = <<>>]),
            store, index)
    ELSE St([proc EXCEPT !.pc = "update", !.read = <<>>], store,
            <<[shape |-> "ok", keys |-> KeysOf(proc.idx), lastCleanup |-> now]>>)

\* The loop of clearExpiredCache and getCacheStats goes to entry i of the
\* index: getItem of its key, or behind the loop updateIndex (the count).
LoopTo(proc, i) ==
    IF i <= Len(KeysOf(proc.idx))
    THEN St([proc EXCEPT !.pc = "item", !.pos = i,
                         !.read = store[KeysOf(proc.idx)[i]]], store, index)
    ELSE IF proc.op = "stats"
    THEN St(Done([proc EXCEPT !.count = Len(KeysOf(proc.idx)), !.read = <<>>]),
            store, index)
    ELSE St([proc EXCEPT !.pc = "update", !.read = <<>>], store,
            <<[shape |-> "ok", keys |-> proc.valid, lastCleanup |-> now]>>)

\* The loop of clearAllCache goes to entry i: removeItem of its key, or
\* behind the loop removeItem of the index.
RemoveFrom(proc, i) ==
    IF i <= Len(KeysOf(proc.idx))
    THEN St([proc EXCEPT !.pc = "remove", !.pos = i],
            [store EXCEPT ![KeysOf(proc.idx)[i]] = <<>>], index)
    ELSE St([proc EXCEPT !.pc = "removeIndex"], store, <<>>)

\* setExplanation
StepSet(proc) ==
    IF proc.pc = "setItem"
    THEN St([proc EXCEPT !.pc = "index", !.idx = getIndex(index, now)], store, index)
    ELSE IF proc.pc = "index"
    THEN IF keysInclude(KeysOf(proc.idx), proc.key)
         THEN St(Done(proc), store, index)
         ELSE St([proc EXCEPT !.pc = "update"], store,
                 <<[shape |-> "ok",
                    keys |-> Append(KeysOf(proc.idx), proc.key),
                    lastCleanup |-> proc.idx.lastCleanup]>>)
    ELSE St(Done(proc), store, index)

\* getExplanation
StepGet(proc) ==
    IF proc.pc = "getItem"
    THEN IF proc.read = <<>> \/ proc.read[1].shape # "ok"
         THEN St(Done([proc EXCEPT !.checked = now]), store, index)
         ELSE IF isExpired(now - proc.read[1].timestamp)
         THEN St([proc EXCEPT !.pc = "remove", !.checked = now],
                 [store EXCEPT ![proc.key] = <<>>], index)
         ELSE St(Done([proc EXCEPT !.ret = <<proc.read[1].explanation>>,
                                   !.checked = now]), store, index)
    ELSE St(Done(proc), store, index)

\* clearExpiredCache
StepExpire(proc) ==
    IF proc.pc = "index" THEN LoopTo(proc, 1)
    ELSE IF proc.pc = "item"
    THEN IF proc.read = <<>> THEN LoopTo(proc, proc.pos + 1)
         ELSE IF proc.read[1].shape # "ok" THEN St(Done(proc), store, index)
         ELSE IF ~isExpired(now - proc.read[1].timestamp)
         THEN LoopTo([proc EXCEPT
                        !.valid = Append(proc.valid, KeysOf(proc.idx)[proc.pos])],
                     proc.pos + 1)
         ELSE St([proc EXCEPT !.pc = "remove"],
                 [store EXCEPT ![KeysOf(proc.idx)[proc.pos]] = <<>>], index)
    ELSE IF proc.pc = "remove" THEN LoopTo(proc, proc.pos + 1)
    ELSE St(Done(proc), store, index)

\* getCacheStats
StepStats(proc) ==
    IF proc.pc = "index" THEN LoopTo(proc, 1)
    ELSE IF proc.read # <<>> /\ proc.read[1].shape # "ok"
    THEN St(Done([proc EXCEPT !.count = 0]), store, index)
    ELSE LoopTo(proc, proc.pos + 1)

\* clearAllCache
StepClearAll(proc) ==
    IF proc.pc = "index" THEN RemoveFrom(proc, 1)
    ELSE IF proc.pc = "remove" THEN RemoveFrom(proc, proc.pos + 1)
    ELSE St(Done(proc), store, index)

StepOf(proc) ==
    CASE proc.op = "set" -> StepSet(proc)
      [] proc.op = "get" -> StepGet(proc)
      [] proc.op = "expire" -> StepExpire(proc)
      [] proc.op = "stats" -> StepStats(proc)
      [] proc.op = "clearAll" -> StepClearAll(proc)

Active(p) == procs[p].pc # "idle"

\* Calls are made one after the other, except that setExplanation calls for
\* one article can overlap (explainNews of the same article, called twice).
MayBegin(p, o, url) ==
    /\ ~Active(p)
    /\ p = 2 => Active(1)
    /\ \A q \in Callers \ {p} :
          Active(q) => (o = "set" /\ procs[q].op = "set" /\ procs[q].item = <<url>>)

Overlapped(p) ==
    [q \in Callers |->
        IF q # p /\ Active(q) THEN [procs[q] EXCEPT !.alone = FALSE] ELSE procs[q]]

Began(p, o, url, payload) ==
    [IdleProc EXCEPT !.op = o, !.item = url, !.payload = payload,
                     !.alone = \A q \in Callers \ {p} : ~Active(q)]

SetExplanation(p) ==
    \E url \in CacheUrls, payload \in Payloads :
        /\ MayBegin(p, "set", url)
        /\ store' = [store EXCEPT ![getCacheKey(url)] = <<Entry(payload, now, url)>>]
        /\ procs' = [Overlapped(p) EXCEPT ![p] =
                        [Began(p, "set", <<url>>, payload) EXCEPT
                            !.pc = "setItem", !.key = getCacheKey(url)]]
        /\ UNCHANGED <<index, prev>>
        /\ UNCHANGED <<now, servVars, pureVars, aiVars>>

GetExplanation(p) ==
    \E url \in CacheUrls :
        /\ MayBegin(p, "get", url)
        /\ procs' = [procs EXCEPT ![p] =
                        [Began(p, "get", <<url>>, "") EXCEPT
                            !.pc = "getItem", !.key = getCacheKey(url),
                            !.read = store[getCacheKey(url)]]]
        /\ UNCHANGED <<store, index, prev>>
        /\ UNCHANGED <<now, servVars, pureVars, aiVars>>

\* clearExpiredCache, getCacheStats and clearAllCache start with getIndex.
IndexCall(p) ==
    \E o \in {"expire", "stats", "clearAll"} :
        /\ MayBegin(p, o, <<>>)
        /\ procs' = [procs EXCEPT ![p] =
                        [Began(p, o, <<>>, "") EXCEPT
                            !.pc = "index", !.idx = getIndex(index, now)]]
        /\ UNCHANGED <<store, index, prev>>
        /\ UNCHANGED <<now, servVars, pureVars, aiVars>>

\* The answer to the request a call waits for arrives.
Step(p) ==
    /\ procs[p].pc \notin {"idle", "done"}
    /\ procs' = [procs EXCEPT ![p] = StepOf(procs[p]).proc]
    /\ store' = StepOf(procs[p]).store
    /\ index' = StepOf(procs[p]).index
    /\ UNCHANGED prev
    /\ UNCHANGED <<now, servVars, pureVars, aiVars>>

\* The caller has the result of its call.
Settle(p) ==
    /\ procs[p].pc = "done"
    /\ prev' = IF procs[p].op = "set" /\ procs[p].alone
               THEN <<[item |-> procs[p].item, payload |-> procs[p].payload]>>
               ELSE <<>>
    /\ procs' = [procs EXCEPT ![p] = IdleProc]
    /\ UNCHANGED <<store, index>>
    /\ UNCHANGED <<now, servVars, pureVars, aiVars>>

\* Half a week passes.
HalfWeek == (7 * 24 * 60 * 60 * 1000) \div 2

TickHalfWeek ==
    /\ now < MaxHalfWeeks * HalfWeek
    /\ now' = now + HalfWeek
    /\ UNCHANGED <<cacheVars, aiVars>>
    /\ UNCHANGED <<servVars, pureVars, aiVars>>

\* Between two calls the text under INDEX_KEY is damaged.
CorruptIndex ==
    /\ \A p \in Callers : ~Active(p)
    /\ \E shape \in {"notjson", "nokeys", "notarray"} :
          index' = <<[shape |-> shape, keys |-> <<>>, lastCleanup |-> 0]>>
    /\ UNCHANGED <<store, procs, prev>>
    /\ UNCHANGED <<now, servVars, pureVars, aiVars>>

NextCache ==
    \/ \E p \in Callers : SetExplanation(p)
    \/ \E p \in Callers : GetExplanation(p)
    \/ \E p \in Callers : IndexCall(p)
    \/ \E p \in Callers : Step(p)
    \/ \E p \in Callers : Settle(p)
    \/ TickHalfWeek
    \/ CorruptIndex

SpecCache == Init /\ [][NextCache]_vars

(***************************************************************************)
(* Overlapping writers.  setExplanation calls for any articles can overlap *)
(* (explainNews of one article is still generating when the user opens     *)
(* another); the other calls are made while no call is in progress.  The   *)
(* clock stands still and the index is not damaged.                        *)
(***************************************************************************)
SetExplanationOverlapping(p) ==
    \E url \in CacheUrls, payload \in Payloads :
        /\ ~Active(p)
        /\ p = 2 => Active(1)
        /\ \A q \in Callers \ {p} : Active(q) => procs[q].op = "set"
        /\ store' = [store EXCEPT ![getCacheKey(url)] = <<Entry(payload, now, url)>>]
        /\ procs' = [Overlapped(p) EXCEPT ![p] =
                        [Began(p, "set", <<url>>, payload) EXCEPT
                            !.pc = "setItem", !.key = getCacheKey(url)]]
        /\ UNCHANGED <<index, prev>>
        /\ UNCHANGED <<now, servVars, pureVars, aiVars>>

NextOverlap ==
    \/ \E p \in Callers : SetExplanationOverlapping(p)
    \/ \E p \in Callers : GetExplanation(p)
    \/ \E p \in Callers : IndexCall(p)
    \/ \E p \in Callers : Step(p)
    \/ \E p \in Callers : Settle(p)

SpecOverlap == Init /\ [][NextOverlap]_vars

(***************************************************************************)
(* AIService.explainNews.  A call goes through the cache lookup            *)
(* (getExplanation, by the steps of CacheService above), and after a miss  *)
(* through the rate limiter, the read of the preferences, the request to   *)
(* the generation backend and the write to the cache (setExplanation).     *)
(* pc names what the call waits for.                                       *)
(***************************************************************************)
\* A cache test that never finds an explanation.
cachedFoundNever(cached) == FALSE

\* if (cached)
cachedFound(cached) == cached # <<>>

\* A limiter that never waits.
rateLimitWaitNone(last, t) == 0

\* rateLimit: the time to wait at time t, 0 for none.
rateLimitWait(last, t) ==
    IF t - last < RATE_LIMIT_MS THEN RATE_LIMIT_MS - (t - last) ELSE 0

credibilityNotes == {"BBC", "NPR", "Reuters", "AP News", "Ars Technica", "TechCrunch"}

\* A note that is empty for the communities of Reddit.
getSourceCredibilityNoteEmpty(sourceName) ==
    IF Head(sourceName) = "r/" THEN <<"", "">>
    ELSE IF Len(sourceName) = 1 /\ Head(sourceName) \in credibilityNotes
    THEN <<"note on", Head(sourceName)>>
    ELSE <<"This source should be cross-referenced", "">>

getSourceCredibilityNote(sourceName) ==
    IF Head(sourceName) = "r/"
    THEN <<"Reddit posts represent community discussions", "">>
    ELSE IF Len(sourceName) = 1 /\ Head(sourceName) \in credibilityNotes
    THEN <<"note on", Head(sourceName)>>
    ELSE <<"This source should be cross-referenced", "">>

getMockExplanation(item) ==
    [summary |-> <<<<"This is a developing story about", item.title>>>>,
     why |-> <<<<"it represents ongoing trends in",
                 IF item.domain # <<>> THEN item.domain[1] ELSE "current events">>>>,
     impact |-> <<<<"The potential impact includes", "">>>>,
     credibility |-> <<getSourceCredibilityNote(item.sourceName)>>]

\* What the backend can answer: the request rejects (a network error, the
\* quota), the answer has no content, the content is not JSON, or the
\* content is a JSON object with some of the four keys.
Fields == {"summary", "why", "impact", "credibility"}

Replies ==
    { [kind |-> k, has |-> {}] : k \in {"error", "quota", "empty", "unparseable"} }
    \cup { [kind |-> "object", has |-> h] :
                h \in {Fields, Fields \ {"credibility"}} }

BackendText(f) == <<"backend", f>>

\* JSON.parse(content) of an object reply
parseContent(reply) ==
    [summary |-> IF "summary" \in reply.has THEN <<BackendText("summary")>> ELSE <<>>,
     why |-> IF "why" \in reply.has THEN <<BackendText("why")>> ELSE <<>>,
     impact |-> IF "impact" \in reply.has THEN <<BackendText("impact")>> ELSE <<>>,
     credibility |-> IF "credibility" \in reply.has
                     THEN <<BackendText("credibility")>> ELSE <<>>]

\* The try block from the answer of the backend to JSON.parse.
tryGenerate(reply) ==
    IF reply.kind \in {"error", "quota"} THEN Threw
    ELSE IF reply.kind = "empty" THEN Threw
    ELSE IF reply.kind = "unparseable" THEN Threw
    ELSE Returned(parseContent(reply))

\* A catch block that passes the error on.
explainCatchRethrow(r, item) == r

\* The catch block of explainNews.
explainCatch(r, item) ==
    IF r.threw THEN Returned(getMockExplanation(item)) ELSE r

\* await cacheService.setExplanation(item, payload): setItem of the entry is sent.
\* What is read in place of an entry: the text of an entry that is not
\* JSON, and the answer of a request that the storage rejected.  Both end
\* in the catch of getExplanation.
NoExplanation == [summary |-> <<>>, why |-> <<>>, impact |-> <<>>, credibility |-> <<>>]
NotJson == [shape |-> "notjson", explanation |-> NoExplanation, timestamp |-> 0, url |-> <<>>]
Rejection == [shape |-> "rejected", explanation |-> NoExplanation, timestamp |-> 0, url |-> <<>>]

\* AsyncStorage.getItem(key) of getExplanation
getItem(key) == IF ai.storage = "up" THEN store[key] ELSE <<Rejection>>

\* A setItem that takes effect whether the storage is available or not.
SendSetRegardless(p, item, payload) ==
    /\ store' = [store EXCEPT ![getCacheKey(item.url)] =
                                <<Entry(payload, now, item.url)>>]
    /\ procs' = [procs EXCEPT ![p] =
                    [Began(p, "set", <<item.url>>, payload) EXCEPT
                        !.pc = "setItem", !.key = getCacheKey(item.url)]]
    /\ UNCHANGED <<index, prev>>

\* setExplanation is called: AsyncStorage.setItem(key, entry), which the
\* storage rejects when it is unavailable (the catch of setExplanation).
SendSet(p, item, payload) ==
    /\ IF ai.storage = "up"
       THEN /\ store' = [store EXCEPT ![getCacheKey(item.url)] =
                                       <<Entry(payload, now, item.url)>>]
            /\ procs' = [procs EXCEPT ![p] =
                           [Began(p, "set", <<item.url>>, payload) EXCEPT
                               !.pc = "setItem", !.key = getCacheKey(item.url)]]
       ELSE /\ store' = store
            /\ procs' = [procs EXCEPT ![p] =
                           [Began(p, "set", <<item.url>>, payload) EXCEPT
                               !.pc = "caught", !.key = getCacheKey(item.url)]]
    /\ UNCHANGED <<index, prev>>

\* explainNews(item) is called: getItem of the cache entry is sent.
BeginExplain(p, item) ==
    /\ ex[p].pc = "idle"
    /\ ai.started < MaxExplains
    /\ ai' = [ai EXCEPT !.started = @ + 1]
    /\ ex' = [ex EXCEPT ![p] = [IdleEx EXCEPT !.pc = "cache", !.item = <<item>>,
                                              !.after = ai.resolved]]
    /\ procs' = [procs EXCEPT ![p] =
                    [Began(p, "get", <<item.url>>, "") EXCEPT
                        !.pc = "getItem", !.key = getCacheKey(item.url),
                        !.read = getItem(getCacheKey(item.url))]]
    /\ UNCHANGED <<store, index, prev>>
    /\ UNCHANGED <<now, servVars, pureVars, ui>>

\* explainNews is called while no other explainNews call is in progress.
ExplainNews(p) ==
    \E item \in ExplainItems :
        /\ \A q \in Callers : ex[q].pc = "idle"
        /\ p = 1
        /\ BeginExplain(p, item)

\* getExplanation has returned: the cached explanation is returned, or the
\* mock is built and written, or the rate limiter is passed.
Cached(p) ==
    /\ ex[p].pc = "cache"
    /\ procs[p].pc = "done"
    /\ LET item == ex[p].item[1]
           cached == procs[p].ret
           wait == rateLimitWait(ai.lastRequestTime, now)
       IN  IF cachedFound(cached)
           THEN /\ ex' = [ex EXCEPT ![p].pc = "done", ![p].ret = cached,
                                    ![p].hit = TRUE]
                /\ UNCHANGED <<ai, cacheVars>>
           ELSE IF ~ai.openai
           THEN /\ ex' = [ex EXCEPT ![p].pc = "store", ![p].mocked = TRUE,
                                    ![p].ret = <<getMockExplanation(item)>>]
                /\ SendSet(p, item, getMockExplanation(item))
                /\ UNCHANGED ai
           ELSE /\ IF wait > 0
                   THEN /\ ex' = [ex EXCEPT ![p].pc = "wait",
                                            ![p].deadline = now + wait]
                        /\ UNCHANGED ai
                   ELSE /\ ex' = [ex EXCEPT ![p].pc = "prefs"]
                        /\ ai' = [ai EXCEPT !.lastRequestTime = now]
                /\ procs' = [procs EXCEPT ![p] = IdleProc]
                /\ UNCHANGED <<store, index, prev>>
    /\ UNCHANGED <<now, servVars, pureVars, ui>>

\* The timer of rateLimit fires.
TimerFires(p) ==
    /\ ex[p].pc = "wait"
    /\ now >= ex[p].deadline
    /\ ex' = [ex EXCEPT ![p].pc = "prefs", ![p].deadline = 0]
    /\ ai' = [ai EXCEPT !.lastRequestTime = now]
    /\ UNCHANGED cacheVars
    /\ UNCHANGED <<now, servVars, pureVars, ui>>

\* getPreferences has returned: the request to the backend is sent.
CallBackend(p) ==
    /\ ex[p].pc = "prefs"
    /\ ex' = [ex EXCEPT ![p].pc = "backend", ![p].sentAt = now, ![p].called = TRUE]
    /\ ai' = [ai EXCEPT !.starts = Append(@, [url |-> ex[p].item[1].url, at |-> now,
                                               prefs |-> ai.prefs])]
    /\ UNCHANGED cacheVars
    /\ UNCHANGED <<now, servVars, pureVars, ui>>

\* The backend answers, or its client gives up.
BackendAnswers(p) ==
    /\ ex[p].pc = "backend"
    /\ \E reply \in Replies :
          LET item == ex[p].item[1]
              r == explainCatch(tryGenerate(reply), item)
          IN  IF r.threw
              THEN /\ ex' = [ex EXCEPT ![p].pc = "rejected", ![p].sentAt = 0,
                                       ![p].reply = reply.kind]
                   /\ UNCHANGED cacheVars
              ELSE /\ ex' = [ex EXCEPT ![p].pc = "store", ![p].sentAt = 0,
                                       ![p].reply = reply.kind,
                                       ![p].mocked = tryGenerate(reply).threw,
                                       ![p].ret = <<r.val>>]
                   /\ SendSet(p, item, r.val)
    /\ UNCHANGED ai
    /\ UNCHANGED <<now, servVars, pureVars, ui>>

\* setExplanation has returned.
Stored(p) ==
    /\ ex[p].pc = "store"
    /\ procs[p].pc = "done"
    /\ ex' = [ex EXCEPT ![p].pc = "done"]
    /\ UNCHANGED <<ai, cacheVars>>
    /\ UNCHANGED <<now, servVars, pureVars, ui>>

\* The caller has the outcome of explainNews.
Resolve(p) ==
    /\ ex[p].pc \in {"done", "rejected"}
    /\ ex' = [ex EXCEPT ![p] = IdleEx]
    /\ procs' = [procs EXCEPT ![p] = IdleProc]
    /\ ai' = [ai EXCEPT !.resolved = <<[url |-> ex[p].item[1].url, ret |-> ex[p].ret]>>]
    /\ UNCHANGED <<store, index, prev>>
    /\ UNCHANGED <<now, servVars, pureVars, ui>>

\* Time passes while a call waits for the preferences or for the backend
\* (the requests to the cache are answered at once): a millisecond, ...
TickMillisecond ==
    /\ \E p \in Callers : ex[p].pc \in {"prefs", "backend"}
    /\ now % RATE_LIMIT_MS < MaxMilliseconds
    /\ now' = now + 1
    /\ UNCHANGED <<servVars, pureVars, cacheVars, aiVars>>

\* ... or more than REQUEST_TIMEOUT_MS while the backend is silent.
TickLongWait ==
    /\ \E p \in Callers : ex[p].pc = "backend"
    /\ now < REQUEST_TIMEOUT_MS
    /\ now % RATE_LIMIT_MS < MaxMilliseconds
    /\ now' = now + REQUEST_TIMEOUT_MS + 1
    /\ UNCHANGED <<servVars, pureVars, cacheVars, aiVars>>

\* Time passes until the timer of a waiting rateLimit is due.
TickToDeadline ==
    /\ \E p \in Callers :
          /\ ex[p].pc = "wait"
          /\ now < ex[p].deadline
          /\ now' = ex[p].deadline
    /\ UNCHANGED <<servVars, pureVars, cacheVars, aiVars>>

InitExplain ==
    /\ posts = <<>>
    /\ config = <<>>
    /\ out = <<>>
    /\ op = "input"
    /\ PipeInit
    /\ CacheInit
    /\ \E apiKey \in BOOLEAN : AiInit(apiKey)

NextExplain ==
    \/ \E p \in Callers : ExplainNews(p)
    \/ \E p \in Callers : Step(p)
    \/ \E p \in Callers : Cached(p)
    \/ \E p \in Callers : TimerFires(p)
    \/ \E p \in Callers : CallBackend(p)
    \/ \E p \in Callers : BackendAnswers(p)
    \/ \E p \in Callers : Stored(p)
    \/ \E p \in Callers : Resolve(p)
    \/ TickMillisecond
    \/ TickLongWait
    \/ TickToDeadline

SpecExplain == InitExplain /\ [][NextExplain]_vars

\* explainNews calls that overlap: a second call is made while the first
\* is in progress (the user opens an article while the explanation of
\* another, or of the same, is still being generated).
ExplainNewsOverlapping(p) ==
    \E item \in ExplainItems :
        /\ p = 2 => ex[1].pc # "idle"
        /\ BeginExplain(p, item)

NextExplainOverlap ==
    \/ \E p \in Callers : ExplainNewsOverlapping(p)
    \/ \E p \in Callers : Step(p)
    \/ \E p \in Callers : Cached(p)
    \/ \E p \in Callers : TimerFires(p)
    \/ \E p \in Callers : CallBackend(p)
    \/ \E p \in Callers : BackendAnswers(p)
    \/ \E p \in Callers : Stored(p)
    \/ \E p \in Callers : Resolve(p)
    \/ TickToDeadline

SpecExplainOverlap == InitExplain /\ [][NextExplainOverlap]_vars

(***************************************************************************)
(* explainNews on a storage that fails.  ai.storage tells whether          *)
(* AsyncStorage answers requests ("up") or rejects every one of them       *)
(* ("down"); it changes, and the text of an entry is damaged, while no     *)
(* call is in progress.  Calls are made one after the other.               *)
(***************************************************************************)
StorageChanges ==
    /\ \A q \in Callers : ex[q].pc = "idle"
    /\ ai' = [ai EXCEPT !.storage = IF @ = "up" THEN "down" ELSE "up"]
    /\ UNCHANGED ex
    /\ UNCHANGED cacheVars
    /\ UNCHANGED <<now, servVars, pureVars, ui>>

CorruptEntry ==
    /\ \A q \in Callers : ex[q].pc = "idle"
    /\ \E k \in CacheKeys :
          /\ store[k] # <<>>
          /\ store[k][1].shape = "ok"
          /\ store' = [store EXCEPT ![k] = <<NotJson>>]
    /\ UNCHANGED <<index, procs, prev>>
    /\ UNCHANGED <<now, servVars, pureVars, aiVars>>

NextUnavailable ==
    \/ \E p \in Callers : ExplainNews(p)
    \/ StorageChanges
    \/ CorruptEntry
    \/ \E p \in Callers : Step(p)
    \/ \E p \in Callers : Cached(p)
    \/ \E p \in Callers : TimerFires(p)
    \/ \E p \in Callers : CallBackend(p)
    \/ \E p \in Callers : BackendAnswers(p)
    \/ \E p \in Callers : Stored(p)
    \/ \E p \in Callers : Resolve(p)
    \/ TickToDeadline

SpecUnavailable == InitExplain /\ [][NextUnavailable]_vars

(***************************************************************************)
(* Articles that share a url, and the preferences of the user.  The same   *)
(* story reaches the list from a feed and from a community: two articles   *)
(* with one url and different ids, titles and sources (explainNews and the *)
(* cache read no id).  ai.prefs is what preferencesService has saved, <<>> *)
(* for nothing; savePreferences is called from the settings, while no      *)
(* explainNews call is in progress.  Calls are made one after the other.   *)
(***************************************************************************)
SharedItems ==
    ExplainItems \cup
        { [url |-> <<65, 97>>, title |-> "B", domain |-> <<"bbc.co.uk">>,
           sourceName |-> <<"r/", "worldnews">>] }

Standpoints == {"moderate", "liberal"}

SavePreferences ==
    /\ \A q \in Callers : ex[q].pc = "idle"
    /\ \E standpoint \in Standpoints :
          /\ ai.prefs # <<standpoint>>
          /\ ai' = [ai EXCEPT !.prefs = <<standpoint>>]
    /\ UNCHANGED ex
    /\ UNCHANGED cacheVars
    /\ UNCHANGED <<now, servVars, pureVars, ui>>

ExplainNewsShared(p) ==
    \E item \in SharedItems :
        /\ \A q \in Callers : ex[q].pc = "idle"
        /\ p = 1
        /\ BeginExplain(p, item)

NextShared ==
    \/ \E p \in Callers : ExplainNewsShared(p)
    \/ SavePreferences
    \/ \E p \in Callers : Step(p)
    \/ \E p \in Callers : Cached(p)
    \/ \E p \in Callers : TimerFires(p)
    \/ \E p \in Callers : CallBackend(p)
    \/ \E p \in Callers : BackendAnswers(p)
    \/ \E p \in Callers : Stored(p)
    \/ \E p \in Callers : Resolve(p)
    \/ TickToDeadline

SpecShared == InitExplain /\ [][NextShared]_vars

(***************************************************************************)
(* The home screen.  handleIlluminate(item) shows the modal for the item,  *)
(* awaits cacheService.getExplanation(item), then aiService.explainNews    *)
(* (item), and sets the explanation to the result; handleCloseModal clears *)
(* the selection.  The handlers run whenever the user taps: a call of      *)
(* handleIlluminate that awaits is not ended by either.                    *)
(***************************************************************************)
HandleIlluminate(p) ==
    \E item \in ExplainItems :
        /\ ui.h[p].pc = "idle"
        /\ ex[p].pc = "idle"
        /\ ~Active(p)
        /\ p = 2 => ui.h[1].pc # "idle"
        /\ ai.started < MaxExplains
        /\ ai' = [ai EXCEPT !.started = @ + 1]
        /\ ui' = [ui EXCEPT !.selectedItem = <<item>>, !.modalVisible = TRUE,
                            !.illuminateLoading = TRUE, !.explanation = <<>>,
                            !.fromCache = FALSE, !.shownFor = <<>>,
                            !.h[p] = [pc |-> "lookup", item |-> <<item>>]]
        /\ procs' = [procs EXCEPT ![p] =
                        [Began(p, "get", <<item.url>>, "") EXCEPT
                            !.pc = "getItem", !.key = getCacheKey(item.url),
                            !.read = getItem(getCacheKey(item.url))]]
        /\ UNCHANGED <<store, index, prev, ex>>
        /\ UNCHANGED <<now, servVars, pureVars>>

\* getExplanation has resolved: setFromCache, and explainNews is called.
LookedUp(p) ==
    /\ ui.h[p].pc = "lookup"
    /\ procs[p].pc = "done"
    /\ LET item == ui.h[p].item[1] IN
        /\ ui' = [ui EXCEPT !.fromCache = IF procs[p].ret # <<>> THEN TRUE ELSE @,
                            !.h[p].pc = "explain"]
        /\ ex' = [ex EXCEPT ![p] = [IdleEx EXCEPT !.pc = "cache", !.item = <<item>>,
                                                  !.after = ai.resolved]]
        /\ procs' = [procs EXCEPT ![p] =
                        [Began(p, "get", <<item.url>>, "") EXCEPT
                            !.pc = "getItem", !.key = getCacheKey(item.url),
                            !.read = getItem(getCacheKey(item.url))]]
    /\ UNCHANGED <<store, index, prev, ai>>
    /\ UNCHANGED <<now, servVars, pureVars>>

\* explainNews has resolved: setExplanation(result), and in the finally
\* setIlluminateLoading(false); a rejection is logged.
Explained(p) ==
    /\ ui.h[p].pc = "explain"
    /\ ex[p].pc \in {"done", "rejected"}
    /\ ui' = [ui EXCEPT !.explanation = IF ex[p].pc = "done" THEN ex[p].ret ELSE @,
                        !.shownFor = IF ex[p].pc = "done"
                                     THEN <<ex[p].item[1].url>> ELSE @,
                        !.illuminateLoading = FALSE,
                        !.h[p] = IdleHandler]
    /\ ex' = [ex EXCEPT ![p] = IdleEx]
    /\ procs' = [procs EXCEPT ![p] = IdleProc]
    /\ ai' = [ai EXCEPT !.resolved = <<[url |-> ex[p].item[1].url, ret |-> ex[p].ret]>>]
    /\ UNCHANGED <<store, index, prev>>
    /\ UNCHANGED <<now, servVars, pureVars>>

HandleCloseModal ==
    /\ ui.modalVisible
    /\ ui' = [ui EXCEPT !.modalVisible = FALSE, !.selectedItem = <<>>,
                        !.explanation = <<>>, !.fromCache = FALSE,
                        !.shownFor = <<>>]
    /\ UNCHANGED <<ai, ex>>
    /\ UNCHANGED cacheVars
    /\ UNCHANGED <<now, servVars, pureVars>>

NextHome ==
    \/ \E p \in Callers : HandleIlluminate(p)
    \/ \E p \in Callers : LookedUp(p)
    \/ \E p \in Callers : Explained(p)
    \/ HandleCloseModal
    \/ \E p \in Callers : Step(p)
    \/ \E p \in Callers : Cached(p)
    \/ \E p \in Callers : TimerFires(p)
    \/ \E p \in Callers : CallBackend(p)
    \/ \E p \in Callers : BackendAnswers(p)
    \/ \E p \in Callers : Stored(p)
    \/ TickToDeadline

SpecHome == InitExplain /\ [][NextHome]_vars

(***************************************************************************)
(* The rate limiter under overlapping calls.  The behaviours start when a  *)
(* first explainNews call (for the BBC article, answered by the backend    *)
(* with a full reply) has just returned: its entry is in the cache and     *)
(* lastRequestTime is the present time.  Two calls are then made, the      *)
(* second while the first is in progress; the frames of the calls are kept *)
(* when they have their results.                                           *)
(***************************************************************************)
FirstItem == CHOOSE item \in ExplainItems : item.domain # <<>>
FirstReply == [kind |-> "object", has |-> Fields]

InitLimited ==
    /\ posts = <<>>
    /\ config = <<>>
    /\ out = <<>>
    /\ op = "input"
    /\ PipeInit
    /\ store = [k \in CacheKeys |->
                   IF k = getCacheKey(FirstItem.url)
                   THEN <<Entry(parseContent(FirstReply), 0, FirstItem.url)>>
                   ELSE <<>>]
    /\ index = <<[shape |-> "ok", keys |-> <<getCacheKey(FirstItem.url)>>,
                  lastCleanup |-> 0]>>
    /\ procs = [p \in Callers |-> IdleProc]
    /\ prev = <<>>
    /\ ai = [openai |-> TRUE, lastRequestTime |-> 0,
             starts |-> <<[url |-> FirstItem.url, at |-> 0, prefs |-> <<>>]>>,
             started |-> 1, prefs |-> <<>>, storage |-> "up",
             resolved |-> <<[url |-> FirstItem.url,
                             ret |-> <<parseContent(FirstReply)>>]>>]
    /\ ex = [p \in Callers |-> IdleEx]
    /\ ui = UiInit

\* The calls that follow the first.
ExplainNewsAfterFirst(p) ==
    \E item \in ExplainItems :
        /\ p = 2 => ex[1].pc # "idle"
        /\ ex[p].pc = "idle"
        /\ ai' = [ai EXCEPT !.started = @ + 1]
        /\ ex' = [ex EXCEPT ![p] = [IdleEx EXCEPT !.pc = "cache", !.item = <<item>>,
                                                  !.after = ai.resolved]]
        /\ procs' = [procs EXCEPT ![p] =
                        [Began(p, "get", <<item.url>>, "") EXCEPT
                            !.pc = "getItem", !.key = getCacheKey(item.url),
                            !.read = getItem(getCacheKey(item.url))]]
        /\ UNCHANGED <<store, index, prev>>
        /\ UNCHANGED <<now, servVars, pureVars, ui>>

NextLimited ==
    \/ \E p \in Callers : ExplainNewsAfterFirst(p)
    \/ \E p \in Callers : Step(p)
    \/ \E p \in Callers : Cached(p)
    \/ \E p \in Callers : TimerFires(p)
    \/ \E p \in Callers : CallBackend(p)
    \/ \E p \in Callers : BackendAnswers(p)
    \/ \E p \in Callers : Stored(p)
    \/ TickToDeadline

SpecLimited == InitLimited /\ [][NextLimited]_vars

(***************************************************************************)
(* Properties of the explanation cache (under SpecCache).                  *)
(***************************************************************************)
\* getExplanation(item) of caller p has returned, and the call that
\* returned before it was made is a setExplanation(item, payload) that no
\* other call overlapped.
GetRightAfterSet(p) ==
    /\ procs[p].op = "get" /\ procs[p].pc = "done"
    /\ prev # <<>>
    /\ prev[1].item = procs[p].item

\* C17: setExplanation(article, payload) followed immediately by
\* getExplanation(article) returns the payload that was stored: the read
\* finds the entry with that payload, and returns it unless more than the
\* TTL has gone by since the entry was written.
C17_RoundTrip ==
    \A p \in Callers :
        GetRightAfterSet(p) =>
            /\ procs[p].read # <<>>
            /\ procs[p].read[1].explanation = prev[1].payload
            /\ procs[p].read[1].url = prev[1].item[1]
            /\ (procs[p].checked - procs[p].read[1].timestamp <= maxAge)
                    => procs[p].ret = <<prev[1].payload>>

\* "p2" was stored for an article and read back in the same half week.
C17_Witness ==
    \E p \in Callers :
        /\ GetRightAfterSet(p)
        /\ prev[1].payload = "p2"
        /\ procs[p].checked = procs[p].read[1].timestamp
        /\ procs[p].ret = <<"p2">>

\* getExplanation of caller p has returned after it found an entry.
GetFoundEntry(p) ==
    /\ procs[p].op = "get" /\ procs[p].pc = "done"
    /\ procs[p].read # <<>>
    /\ procs[p].read[1].shape = "ok"

AgeAtRead(p) == procs[p].checked - procs[p].read[1].timestamp

\* C18: getExplanation on an entry whose timestamp is older than 7 days
\* returns null and removes the entry from the store; on an entry that is
\* 7 days old or younger it returns the stored payload and leaves the
\* entry in the store as it was.
C18_Expiry ==
    \A p \in Callers :
        GetFoundEntry(p) =>
            IF AgeAtRead(p) > 7 * 24 * 60 * 60 * 1000
            THEN procs[p].ret = <<>> /\ store[procs[p].key] = <<>>
            ELSE /\ procs[p].ret = <<procs[p].read[1].explanation>>
                 /\ store[procs[p].key] = procs[p].read

\* An entry of ten and a half days was read: null, and the entry is gone.
C18_Witness ==
    \E p \in Callers :
        /\ GetFoundEntry(p)
        /\ AgeAtRead(p) = 3 * HalfWeek
        /\ procs[p].ret = <<>>
        /\ store[procs[p].key] = <<>>

\* An entry of exactly seven days was read: its payload is returned.
C18_AtTTL ==
    \E p \in Callers :
        /\ GetFoundEntry(p)
        /\ AgeAtRead(p) = 2 * HalfWeek
        /\ procs[p].ret # <<>>

StoredKeys == IF index # <<>> /\ index[1].shape = "ok" THEN index[1].keys ELSE <<>>

Occurrences(keys, key) == Cardinality({ i \in 1..Len(keys) : keys[i] = key })

NoKeyTwice == \A k \in CacheKeys : Occurrences(StoredKeys, k) <= 1

SetReturnsWithKeyOnce ==
    \A p \in Callers :
        (procs[p].op = "set" /\ procs[p].pc # "done" /\ procs'[p].pc = "done")
            => Occurrences(IF index' # <<>> /\ index'[1].shape = "ok"
                           THEN index'[1].keys ELSE <<>>, procs[p].key) = 1

\* C19: the cache index never has a key twice, after any sequence of
\* setExplanation, getExplanation, clearExpiredCache and clearAllCache
\* calls, with repeated and overlapping setExplanation calls for one
\* article; and at the return of setExplanation(article, payload) the key
\* of the article is in the index exactly once.
C19_NoDuplicateKeys == []NoKeyTwice /\ [][SetReturnsWithKeyOnce]_vars

\* Two overlapping setExplanation calls for one article: the second has
\* returned, the index holds two keys, the article's key once.
C19_Witness ==
    \E p \in Callers :
        /\ procs[p].op = "set" /\ procs[p].pc = "done"
        /\ ~procs[p].alone
        /\ Len(StoredKeys) = 2
        /\ Occurrences(StoredKeys, procs[p].key) = 1

\* C20: a missing index, a text that is not JSON and a text without a keys
\* array are read as the empty index: getIndex gives its caller an index
\* with a key sequence (the stored keys when the text is well-formed, none
\* otherwise), and setExplanation, getCacheStats, clearExpiredCache and
\* clearAllCache go on with it instead of ending in an error.
C20_CorruptIndexIsEmpty ==
    \A p \in Callers :
        /\ (procs[p].pc = "index" /\ procs[p].alone) =>
                /\ procs[p].idx.shape = "ok"
                /\ procs[p].idx.keys = StoredKeys
        /\ (procs[p].pc = "done" /\ procs[p].alone /\ procs[p].op = "set") =>
                Occurrences(StoredKeys, procs[p].key) = 1
        /\ (procs[p].pc = "done" /\ procs[p].op = "expire") =>
                index # <<>> /\ index[1].shape = "ok"
        /\ (procs[p].pc = "done" /\ procs[p].op = "clearAll") => index = <<>>

\* setExplanation has read an index whose keys field is not an array,
\* with an entry in the store, as the empty index.
C20_Witness ==
    \E p \in Callers :
        /\ procs[p].op = "set" /\ procs[p].pc = "index" /\ procs[p].alone
        /\ index # <<>> /\ index[1].shape = "notarray"
        /\ procs[p].idx.keys = <<>>
        /\ \A k \in CacheKeys : store[k] # <<>>

\* A step of the clearExpiredCache call of caller p.
ExpireStep(p) ==
    /\ procs[p].op = "expire"
    /\ procs[p].pc \notin {"idle", "done"}
    /\ procs'[p] # procs[p]

\* The entry whose text the clearExpiredCache call of caller p has just got.
CheckedKey(p) ==
    IF procs[p].pc = "item" THEN <<KeysOf(procs[p].idx)[procs[p].pos]>> ELSE <<>>

\* C21: clearExpiredCache deletes every indexed entry that is older than
\* 7 days when the call looks at it and leaves every other entry of the
\* store as it is; then it writes the index with exactly the keys it read
\* whose entries are still in the store, in their order, and with
\* lastCleanup the time of the write; and it returns only after that write.
C21_ClearExpired ==
    [][\A p \in Callers :
          ExpireStep(p) =>
            /\ \A k \in CacheKeys :
                  store'[k] =
                     IF /\ CheckedKey(p) = <<k>>
                        /\ store[k] # <<>>
                        /\ now - store[k][1].timestamp > 7 * 24 * 60 * 60 * 1000
                     THEN <<>> ELSE store[k]
            /\ procs'[p].pc = "update" =>
                  index' = <<[shape |-> "ok",
                              keys |-> SelectSeqBy(KeysOf(procs[p].idx),
                                          [k \in CacheKeys |-> store'[k] # <<>>]),
                              lastCleanup |-> now]>>
            /\ procs'[p].pc = "done" => procs[p].pc = "update"]_vars

\* clearExpiredCache read an index of two keys, deleted the expired entry
\* of one and wrote the index with the key of the other.
C21_Witness ==
    \E p \in Callers :
        /\ procs[p].op = "expire" /\ procs[p].pc = "update"
        /\ Len(KeysOf(procs[p].idx)) = 2
        /\ store[KeysOf(procs[p].idx)[1]] = <<>>
        /\ store[KeysOf(procs[p].idx)[2]] # <<>>
        /\ index = <<[shape |-> "ok", keys |-> <<KeysOf(procs[p].idx)[2]>>,
                      lastCleanup |-> now]>>

\* C22: when clearAllCache has completed, the index is absent and no
\* article has an entry in the store (getExplanation gets nothing for any
\* article that had been cached).
C22_ClearAllEmptiesCache ==
    \A p \in Callers :
        (procs[p].op = "clearAll" /\ procs[p].pc = "done") =>
            /\ index = <<>>
            /\ \A k \in CacheKeys : store[k] = <<>>

\* What clearAllCache does do: when its last request is sent the index
\* is absent and so is every entry whose key was in the index it read; and
\* getCacheStats, called next, counts the keys of an absent index.
C22_IndexedEntriesGone ==
    \A p \in Callers :
        /\ (procs[p].op = "clearAll" /\ procs[p].pc = "removeIndex") =>
                /\ index = <<>>
                /\ \A k \in Range(KeysOf(procs[p].idx)) : store[k] = <<>>
        /\ (procs[p].op = "stats" /\ procs[p].pc = "done" /\ index = <<>>) =>
                procs[p].count = 0

(***************************************************************************)
(* Properties of explainNews (under SpecExplain, calls made one after the  *)
(* other, and SpecExplainOverlap, calls that overlap).                     *)
(***************************************************************************)
\* A step of the cache lookup of the explainNews call of caller p: the call
\* is made, the answer of the store arrives, getExplanation has returned.
LookupStep(p) ==
    /\ ex[p].pc \in {"idle", "cache"}
    /\ ex'[p] # ex[p] \/ procs'[p] # procs[p]

\* The getExplanation call of the frame has read a live entry.
LiveGet(proc) ==
    /\ proc.op = "get"
    /\ proc.read # <<>>
    /\ now - proc.read[1].timestamp <= 7 * 24 * 60 * 60 * 1000

\* C23: explainNews for an article with a live cache entry returns the
\* explanation of the entry straight from the lookup: no step of the call
\* writes to the store or the index, none calls the backend, none waits
\* for or stamps the rate limiter, and the call ends with the cached
\* explanation as its result without having built a mock.
C23_HitShortCircuits ==
    [][\A p \in Callers :
          (LookupStep(p) /\ (LiveGet(procs[p]) \/ LiveGet(procs'[p]))) =>
            /\ store' = store
            /\ index' = index
            /\ ai'.lastRequestTime = ai.lastRequestTime
            /\ ai'.starts = ai.starts
            /\ ex'[p].pc \in {"cache", "done"}
            /\ ex'[p].pc = "done" =>
                  /\ ex'[p].ret = <<procs'[p].read[1].explanation>>
                  /\ ex'[p].hit
                  /\ ~ex'[p].called
                  /\ ~ex'[p].mocked]_vars

\* With a backend configured, a second call for an article returned the
\* explanation the backend gave to the first; the backend was called once.
C23_Witness ==
    \E p \in Callers :
        /\ ai.openai
        /\ ex[p].pc = "done" /\ ex[p].hit
        /\ Len(ai.starts) = 1
        /\ ex[p].ret = <<parseContent([kind |-> "object", has |-> Fields])>>
        /\ store[getCacheKey(ex[p].item[1].url)][1].explanation = ex[p].ret[1]

\* The explainNews call of caller p has its result.
ExplainDone(p) == ex[p].pc = "done"

\* The key of the article of the explainNews call of caller p.
KeyOf(p) == getCacheKey(ex[p].item[1].url)

\* The call before the explainNews call of caller p was for the same article.
SecondForArticle(p) ==
    /\ ex[p].after # <<>>
    /\ ex[p].after[1].url = ex[p].item[1].url

\* C24: without a backend, explainNews for an article that is not cached
\* builds the mock explanation of the article, writes it to the cache
\* (entry and index key) and returns it; explainNews for the same article,
\* called next, returns the same explanation from the cache and builds no
\* mock, so getMockExplanation has run once for the two calls.
C24_MockCachedOnce ==
    \A p \in Callers :
        (~ai.openai /\ ExplainDone(p)) =>
            /\ ~ex[p].called
            /\ ~ex[p].hit =>
                  /\ ex[p].mocked
                  /\ ex[p].ret = <<getMockExplanation(ex[p].item[1])>>
                  /\ store[KeyOf(p)] # <<>>
                  /\ store[KeyOf(p)][1].explanation = ex[p].ret[1]
                  /\ keysInclude(StoredKeys, KeyOf(p))
            /\ SecondForArticle(p) =>
                  /\ ex[p].hit
                  /\ ~ex[p].mocked
                  /\ ex[p].ret = ex[p].after[1].ret

\* Without a backend, the second call for the post of r/worldnews returned
\* the mock explanation of the first call from the cache.
C24_Witness ==
    \E p \in Callers :
        /\ ~ai.openai /\ ExplainDone(p)
        /\ SecondForArticle(p)
        /\ ex[p].item[1].domain = <<>>
        /\ ex[p].hit /\ ~ex[p].mocked
        /\ ex[p].ret = <<getMockExplanation(ex[p].item[1])>>

BackendFailed(p) == ex[p].reply \in {"error", "quota", "empty", "unparseable"}

\* C25: explainNews never rejects; when the request to the backend fails
\* (it rejects with a network or a quota error, the answer has no content,
\* the content is not JSON), the call writes the mock explanation of the
\* article to the cache and returns it.
C25_NeverRejects ==
    \A p \in Callers :
        /\ ex[p].pc # "rejected"
        /\ (ExplainDone(p) /\ BackendFailed(p)) =>
              /\ ex[p].ret = <<getMockExplanation(ex[p].item[1])>>
              /\ store[KeyOf(p)] # <<>>
              /\ store[KeyOf(p)][1].explanation = getMockExplanation(ex[p].item[1])
              /\ keysInclude(StoredKeys, KeyOf(p))

\* The backend answered with a text that is not JSON: the call has
\* returned the mock explanation, which is in the cache.
C25_Witness ==
    \E p \in Callers :
        /\ ExplainDone(p)
        /\ ex[p].called /\ ex[p].reply = "unparseable"
        /\ ex[p].ret = <<getMockExplanation(ex[p].item[1])>>
        /\ store[KeyOf(p)][1].explanation = ex[p].ret[1]

\* The field of the explanation is there and its text is not empty.
NonEmptyField(field) == field # <<>> /\ field[1] # <<"", "">>

AllFieldsNonEmpty(e) ==
    /\ NonEmptyField(e.summary)
    /\ NonEmptyField(e.why)
    /\ NonEmptyField(e.impact)
    /\ NonEmptyField(e.credibility)

\* C26: with a backend that fails, explainNews returns an explanation
\* whose summary, why, impact and credibility are all non-empty texts; and
\* explainNews for the same article, called next, returns the identical
\* explanation from the cache without a request to the backend.
C26_FallbackCached ==
    \A p \in Callers :
        (ai.openai /\ ExplainDone(p)) =>
            /\ BackendFailed(p) =>
                  /\ ex[p].ret # <<>>
                  /\ AllFieldsNonEmpty(ex[p].ret[1])
            /\ SecondForArticle(p) =>
                  /\ ex[p].hit
                  /\ ~ex[p].called
                  /\ ex[p].ret = ex[p].after[1].ret

\* The backend failed for the first call; the second call for the article
\* returned the mock explanation from the cache, and the backend has been
\* called once.
C26_Witness ==
    \E p \in Callers :
        /\ ai.openai /\ ExplainDone(p)
        /\ SecondForArticle(p)
        /\ ex[p].after[1].ret = <<getMockExplanation(ex[p].item[1])>>
        /\ ex[p].ret = ex[p].after[1].ret
        /\ AllFieldsNonEmpty(ex[p].ret[1])
        /\ ~ex[p].called
        /\ Len(ai.starts) = 1

\* No field of the explanation is undefined.
AllFieldsDefined(e) ==
    /\ e.summary # <<>>
    /\ e.why # <<>>
    /\ e.impact # <<>>
    /\ e.credibility # <<>>

\* C27: no field of an explanation that explainNews returns or that is in
\* the cache is undefined (a field that the reply of the backend lacks has
\* a default text).
C27_NoFieldUndefined ==
    /\ \A p \in Callers : ExplainDone(p) => AllFieldsDefined(ex[p].ret[1])
    /\ \A k \in CacheKeys :
          store[k] # <<>> => AllFieldsDefined(store[k][1].explanation)

\* What does hold: the explanation returned after an object reply is the
\* parsed reply as it is, a present field with the text of the backend.
C27_ReplyReturnedAsIs ==
    \A p \in Callers :
        (ExplainDone(p) /\ ex[p].reply = "object") =>
            \E reply \in Replies :
                /\ reply.kind = "object"
                /\ ex[p].ret = <<parseContent(reply)>>

\* C28: with calls made one after the other, any two consecutive requests
\* to the backend start at least RATE_LIMIT_MS (2000 ms) apart.
C28_BackendCallsSpaced ==
    \A i \in 1..(Len(ai.starts) - 1) :
        ai.starts[i + 1].at - ai.starts[i].at >= 2000

\* What the limiter does keep apart: the times it stamps in
\* lastRequestTime, each at least RATE_LIMIT_MS after the one before; a
\* request starts at or after the stamp of its call.
C28_StampsSpaced ==
    [][/\ ai'.lastRequestTime # ai.lastRequestTime =>
              ai'.lastRequestTime - ai.lastRequestTime >= RATE_LIMIT_MS
       /\ ai'.starts # ai.starts =>
              ai'.starts[Len(ai'.starts)].at >= ai.lastRequestTime]_vars

\* The limiter delayed a call: the second request was sent after a wait.
C28_Delayed ==
    /\ Len(ai.starts) = 2
    /\ ai.starts[2].at = ai.lastRequestTime
    /\ ai.starts[2].at >= ai.starts[1].at + 1999

\* The requests to the backend made so far for the article with this url.
RequestsFor(url) == { i \in 1..Len(ai.starts) : ai.starts[i].url = url }

\* C29: for any article and any explainNews calls for it, overlapping ones
\* included, the backend is requested at most once while the entry of the
\* article has neither expired nor been cleared (no entry expires and none
\* is cleared in the behaviours of SpecExplainOverlap).
C29_OneRequestPerArticle ==
    \A item \in ExplainItems : Cardinality(RequestsFor(item.url)) <= 1

\* C30: a request to the backend that has not been answered within
\* REQUEST_TIMEOUT_MS (30 s) is treated as failed: no call is still waiting
\* for the backend more than 30 s after it sent its request.
C30_BackendWaitBounded ==
    \A p \in Callers :
        ex[p].pc = "backend" => now - ex[p].sentAt <= 30000

(***************************************************************************)
(* Properties of the rate limiter under overlapping calls (SpecLimited).   *)
(***************************************************************************)
\* C31: the limiter has a race.  Each call keeps the interval with respect
\* to the last-call timestamp it read (every request after the first starts
\* at least RATE_LIMIT_MS after the first), and a call that waited goes on
\* at its deadline and stamps lastRequestTime without reading it again; so
\* two overlapping calls for uncached articles that read the same timestamp
\* start their requests together (the state of C31_Witness).
C31_LimiterRace ==
    /\ [](\A i \in 2..Len(ai.starts) :
              ai.starts[i].at - ai.starts[1].at >= RATE_LIMIT_MS)
    /\ [][\A p \in Callers :
              (ex[p].pc = "wait" /\ ex'[p].pc # "wait") =>
                  /\ ex'[p].pc = "prefs"
                  /\ now >= ex[p].deadline
                  /\ ai'.lastRequestTime = now]_vars

\* Two overlapping calls, both of which missed the cache, have started
\* their requests less than RATE_LIMIT_MS apart.
C31_Witness ==
    /\ Len(ai.starts) = 3
    /\ \A p \in Callers : ex[p].called /\ ~ex[p].hit
    /\ ai.starts[3].at - ai.starts[2].at < RATE_LIMIT_MS

(***************************************************************************)
(* Properties of overlapping cache writers (SpecOverlap).                  *)
(***************************************************************************)
\* C32: when two overlapping setExplanation calls for different urls have
\* both completed, both entries are in the store and both keys are in the
\* index.
C32_BothWritersKept ==
    \A p, q \in Callers :
        (/\ p # q
         /\ procs[p].op = "set" /\ procs[p].pc = "done"
         /\ procs[q].op = "set" /\ procs[q].pc = "done"
         /\ procs[p].item # procs[q].item) =>
            \A k \in {procs[p].key, procs[q].key} :
                /\ store[k] # <<>>
                /\ Occurrences(StoredKeys, k) >= 1

\* What does hold for them: both entries are in the store, and the index
\* has the key of at least one of the two.
C32_EntriesKept ==
    \A p, q \in Callers :
        (/\ p # q
         /\ procs[p].op = "set" /\ procs[p].pc = "done"
         /\ procs[q].op = "set" /\ procs[q].pc = "done"
         /\ procs[p].item # procs[q].item) =>
            /\ store[procs[p].key] # <<>> /\ store[procs[q].key] # <<>>
            /\ \E k \in {procs[p].key, procs[q].key} :
                   Occurrences(StoredKeys, k) >= 1

(***************************************************************************)
(* Index and store of the explanation cache (SpecCache).                   *)
(***************************************************************************)
\* C33: no dangling key: after any sequence of getExplanation,
\* setExplanation, clearExpiredCache and clearAllCache calls (no call in
\* progress), every key in the index refers to an entry present in the
\* store.
C33_NoDanglingKey ==
    (\A p \in Callers : ~Active(p)) =>
        \A k \in Range(StoredKeys) : store[k] # <<>>

\* What does hold: a key of the index without entry is the key of an entry
\* that was written and has been removed since (each key of the index is
\* the key of one of the articles).
C33_KeysOfArticles ==
    \A k \in Range(StoredKeys) : \E url \in CacheUrls : k = getCacheKey(url)

(***************************************************************************)
(* Properties of RSSParser.parseFeed (SpecParse).                          *)
(***************************************************************************)
\* The feed items that have a title and a link.
ItemsKept == SelectSeqBy(posts, [item \in Range(posts) |->
                                   item.title # <<>> /\ item.link # <<>>])

\* C34: every Article the parser emits has a non-empty title (the title as
\* stored, after cleanHTML) and a non-empty url, and the Articles are those
\* of the feed items that have both a title and a link.
C34_TitleAndUrlNonEmpty ==
    op = "parse" =>
        /\ Len(out.val) = Len(ItemsKept)
        /\ \A i \in 1..Len(out.val) :
              /\ out.val[i].url # <<>>
              /\ out.val[i].title # <<>>
              /\ out.val[i].title[1] > 0

\* What does hold: an item without title or link gives no Article, and
\* every Article has the url of its item and a title that is not undefined.
C34_MissingDropped ==
    op = "parse" =>
        /\ Len(out.val) = Len(ItemsKept)
        /\ \A i \in 1..Len(out.val) :
              /\ out.val[i].url = ItemsKept[i].link
              /\ out.val[i].title # <<>>

\* C35: every Article has a valid publishedAt: the time of the pubDate of
\* its item when the item has a pubDate that parses, the time of parsing
\* when the pubDate is missing or does not parse.
C35_PublishedAtValid ==
    op = "parse" =>
        /\ Len(out.val) = Len(ItemsKept)
        /\ \A i \in 1..Len(out.val) :
              out.val[i].publishedAt =
                  IF ItemsKept[i].pubDate # <<>> /\ ItemsKept[i].pubDate[1].ok
                  THEN <<ItemsKept[i].pubDate[1].time>>
                  ELSE <<now>>

\* What does hold: the time of a pubDate that parses, the time of parsing
\* for an item without pubDate.
C35_PresentOrMissing ==
    op = "parse" =>
        /\ Len(out.val) = Len(ItemsKept)
        /\ \A i \in 1..Len(out.val) :
              /\ ItemsKept[i].pubDate = <<>> => out.val[i].publishedAt = <<now>>
              /\ (ItemsKept[i].pubDate # <<>> /\ ItemsKept[i].pubDate[1].ok) =>
                     out.val[i].publishedAt = <<ItemsKept[i].pubDate[1].time>>

(***************************************************************************)
(* The news cache and the filter configuration (Spec).                     *)
(***************************************************************************)
\* C37: a news cache hit ignores the filter configuration of the call: a
\* fetchAllNews call served from the slot returns the list as it is in
\* the slot, whatever configuration the call was given, and leaves the
\* slot as it is.
C37_HitIgnoresConfig ==
    (pc = "done" /\ ~fresh) =>
        /\ atCall.slot # <<>>
        /\ result = CachedList(atCall.slot)
        /\ slot = atCall.slot
        /\ issued = {}

\* A call with the default configuration was served from the slot a list
\* that the default configuration would not have let through as it is.
C37_Witness ==
    /\ pc = "done" /\ ~fresh
    /\ cfg = <<>>
    /\ ~filterPosts(result, cfg).threw
    /\ filterPosts(result, cfg).val # result

(***************************************************************************)
(* Entries and index of the explanation cache (SpecCache).                 *)
(***************************************************************************)
\* C39: every entry written by setExplanation is reachable through the
\* index: with no call in progress and the index absent or well-formed
\* (a corrupted index has been read and reset by a later call), each entry
\* present in the store has its key in the index.
C39_EntriesIndexed ==
    ((\A p \in Callers : ~Active(p)) /\ (index # <<>> => index[1].shape = "ok")) =>
        \A k \in CacheKeys : store[k] # <<>> => Occurrences(StoredKeys, k) >= 1

(***************************************************************************)
(* The cache key of an explanation (SpecShared).                           *)
(***************************************************************************)
\* C38: the cache key depends only on the url.  With calls made one after
\* the other and no entry expired or cleared, the backend is requested at
\* most once for a url, whichever of the articles with that url the calls
\* are for and whatever preferences are saved in between; a call that
\* finds the entry of the url returns its explanation, and when a call has
\* its result the entry of its url holds that result.
C38_KeyOnlyUrl ==
    /\ \A item \in SharedItems : Cardinality(RequestsFor(item.url)) <= 1
    /\ \A p \in Callers :
          ExplainDone(p) =>
              /\ store[KeyOf(p)] # <<>>
              /\ ex[p].ret = <<store[KeyOf(p)][1].explanation>>
              /\ store[KeyOf(p)][1].url = ex[p].item[1].url
              /\ ex[p].hit => ~ex[p].called /\ ~ex[p].mocked

\* A call for the community's article was served the explanation made for
\* the feed's article with the same url, under preferences that are the
\* saved ones no more.
C38_Witness ==
    /\ ExplainDone(1)
    /\ ex[1].hit
    /\ ex[1].item[1] # FirstItem
    /\ ex[1].item[1].url = FirstItem.url
    /\ ex[1].ret = <<getMockExplanation(FirstItem)>>
    /\ Len(ai.starts) = 1
    /\ ai.starts[1].prefs # ai.prefs

(***************************************************************************)
(* Failures of the explanation cache (SpecUnavailable).                    *)
(***************************************************************************)
\* The lookup of a call failed: the storage rejected the request, or the
\* text of the entry is not JSON.
ReadFailed(proc) ==
    proc.op = "get" /\ proc.read # <<>> /\ proc.read[1].shape # "ok"

C36_CorruptRead ==
    /\ ex[1].pc = "cache"
    /\ procs[1].pc = "done"
    /\ procs[1].read = <<NotJson>>
    /\ procs[1].ret = <<>>

(***************************************************************************)
(* Properties of the home screen (SpecHome).                               *)
(***************************************************************************)
\* C40: the explanation the home screen holds belongs to the selected
\* article: whenever an explanation is set, an article is selected and the
\* explanation is the result of a request made for that article.
C40_ExplanationOfSelected ==
    ui.explanation # <<>> =>
        /\ ui.selectedItem # <<>>
        /\ ui.shownFor = <<ui.selectedItem[1].url>>

\* What does hold: an explanation that is set is the result of the
\* explainNews call of a tap, and while the modal has not been closed and
\* no second article been tapped since that tap, it is of the selected one.
C40_ResultOfSomeTap ==
    ui.explanation # <<>> =>
        /\ ui.shownFor # <<>>
        /\ \E item \in ExplainItems : ui.shownFor = <<item.url>>
        /\ ~ui.illuminateLoading \/ \E p \in Callers : ui.h[p].pc # "idle"

\* The late result of a closed modal: an explanation is set while no
\* article is selected and the modal is not visible.
C40_SetAfterClose ==
    /\ ui.explanation # <<>>
    /\ ui.selectedItem = <<>>
    /\ ~ui.modalVisible

====
